---- MODULE Spec2Model ----
(***************************************************************************)
(* Cross-platform path translation of the CMDSPACE Eagle plugin            *)
(* (nancyel/cmds-eagle).  Strings are sequences of one-character strings,  *)
(* so that substring search, regular-expression matching, percent          *)
(* encoding and decoding are computed character by character as the        *)
(* TypeScript source computes them.                                        *)
(***************************************************************************)
EXTENDS Integers, Sequences, FiniteSets, TLC

VARIABLES
    computers,            \* settings.computers: the registered profiles, in registration order
    enableCrossPlatform,  \* settings.enableCrossPlatform
    platform,             \* process.platform of the running computer
    vaultPath,            \* adapter.basePath: where the vault lives on the running computer
    path,                 \* argument of the last path operation
    foreign,              \* result of isPathFromDifferentPlatform(path)
    source,               \* result of findMatchingComputer(path): a profile or NoComputer
    out,                  \* result of the last path operation
    op,                   \* name of the last path operation
    trail,                \* the conversions made so far: who was live, input, output
    docText,              \* persisted text of the active document
    content,              \* text read by the running content-mode pass
    scanPc,               \* position of the content-mode pass
    img,                  \* the rendered image node: src and the two data attributes
    writes,               \* number of vault.modify calls made by the engine
    convertedCount,       \* convertedCount of the last finished content-mode pass, -1 before any
    scanPasses,           \* number of content-mode passes started
    identifier,           \* a file:// identifier as it stands in an embed
    encodings,            \* how many times its path was percent-encoded, 0 when unknown
    lastModifiedFile,     \* this.lastModifiedFile: a file path or NoFile (null)
    autoConvertCrossPlatformPaths,  \* settings.autoConvertCrossPlatformPaths
    pending,              \* per file, the autoConvertOnFileOpen timers set and not yet fired
    notes,                \* per file, the persisted text
    autoPc,               \* per file, the position of a running autoConvertOnFileOpen
    autoContent,          \* per file, the text a running autoConvertOnFileOpen read
    engineWrote,          \* per file, whether the engine ever called vault.modify on it
    lastEvent,            \* the last thing that happened: its kind and its file
    activeFile,           \* workspace.getActiveFile() during the reference-rewrite flow
    excludePosition,      \* [line, ch] of the embed the user has just replaced directly
    embedCache,           \* per file, metadataCache's embeds that resolve to the uploaded file
    filteredRefs,         \* the references still to be rewritten: [notePath, positions]
    refPc,                \* position of offerToReplaceOtherReferences
    confirmResult,        \* what confirmReplaceReferences resolved to, "none" before
    timerSet,             \* whether the 10 s timer of the confirmation has yet to fire
    noticeState,          \* the notice of the confirmation: none, shown, clicked, expired
    noteWrites,           \* per file, the vault.modify calls of replaceAllReferences
    deleted,              \* the notes that no longer exist in the vault
    saved,                \* the registry as saveData last stored it
    saveOk,               \* whether the last saveSettings of the settings tab resolved
    now,                  \* Date.now() of the last registration
    passPc,               \* per invocation of a scan on one note: where it is
    passContent,          \* per invocation: the text its vault.read returned
    openedText            \* the text of the note before the first invocation

codecVars == <<identifier, encodings>>

openVars == <<lastModifiedFile, autoConvertCrossPlatformPaths, pending, notes, autoPc,
              autoContent, engineWrote, lastEvent>>

refVars == <<activeFile, excludePosition, embedCache, filteredRefs, refPc,
             confirmResult, timerSet, noticeState, noteWrites, deleted>>

regVars == <<saved, saveOk, now>>

passVars == <<passPc, passContent, openedText>>

vars == <<computers, enableCrossPlatform, platform, vaultPath, path, foreign,
          source, out, op, trail, docText, content, scanPc, img, writes,
          convertedCount, scanPasses, codecVars, openVars, refVars, regVars, passVars>>

----------------------------------------------------------------------------
(* Characters *)

UpperCase == <<"A", "B", "C", "D", "E", "F", "G", "H", "I", "J", "K", "L", "M",
               "N", "O", "P", "Q", "R", "S", "T", "U", "V", "W", "X", "Y", "Z">>
LowerCase == <<"a", "b", "c", "d", "e", "f", "g", "h", "i", "j", "k", "l", "m",
               "n", "o", "p", "q", "r", "s", "t", "u", "v", "w", "x", "y", "z">>
Digits == <<"0", "1", "2", "3", "4", "5", "6", "7", "8", "9">>

\* The printable ASCII characters in code order: AsciiPrintable[i] has code 31 + i
\* ("grave" stands for the backquote, code 96, which a TLA+ string cannot hold).
AsciiPrintable ==
    <<" ", "!", "\"", "#", "$", "%", "&", "'", "(", ")", "*", "+", ",", "-", ".", "/",
      "0", "1", "2", "3", "4", "5", "6", "7", "8", "9", ":", ";", "<", "=", ">", "?",
      "@", "A", "B", "C", "D", "E", "F", "G", "H", "I", "J", "K", "L", "M", "N", "O",
      "P", "Q", "R", "S", "T", "U", "V", "W", "X", "Y", "Z", "[", "\\", "]", "^", "_",
      "grave", "a", "b", "c", "d", "e", "f", "g", "h", "i", "j", "k", "l", "m", "n", "o",
      "p", "q", "r", "s", "t", "u", "v", "w", "x", "y", "z", "{", "|", "}", "~">>

Range(s) == {s[i] : i \in 1..Len(s)}

IndexIn(s, c) == CHOOSE i \in 1..Len(s) : s[i] = c

Uppers == Range(UpperCase)

Letters == Range(UpperCase) \cup Range(LowerCase)

IsLetter(c) == c \in Letters

\* The case folding of the regular expressions' i flag.
LowerOf == [c \in Uppers |-> LowerCase[IndexIn(UpperCase, c)]]

Lower(c) == IF c \in Uppers THEN LowerOf[c] ELSE c

IsSep(c) == c \in {"/", "\\"}

----------------------------------------------------------------------------
(* String.prototype operations used by the source *)

StartsWith(s, p) == Len(p) <= Len(s) /\ SubSeq(s, 1, Len(p)) = p

OccursAt(s, p, i) == i + Len(p) - 1 <= Len(s) /\ SubSeq(s, i, i + Len(p) - 1) = p

\* s.includes(p)
Includes(s, p) == \E i \in 1..(Len(s) - Len(p) + 1) : OccursAt(s, p, i)

\* The least index i >= from at which p occurs in s, or 0.
RECURSIVE IndexFrom(_, _, _)
IndexFrom(s, p, from) ==
    IF from + Len(p) - 1 > Len(s) THEN 0
    ELSE IF OccursAt(s, p, from) THEN from
    ELSE IndexFrom(s, p, from + 1)

\* s.indexOf(p) + 1, or 0 when p does not occur
IndexOf(s, p) == IndexFrom(s, p, 1)

\* s.replace(p, r) with a string pattern: the first occurrence only
ReplaceFirst(s, p, r) ==
    LET i == IndexOf(s, p)
    IN  IF i = 0 THEN s
        ELSE SubSeq(s, 1, i - 1) \o r \o SubSeq(s, i + Len(p), Len(s))

\* s.replace(/\\/g, '/')
SlashNormalize(s) == [i \in 1..Len(s) |-> IF s[i] = "\\" THEN "/" ELSE s[i]]

\* s.split('/')
RECURSIVE SplitSlash(_)
SplitSlash(s) ==
    LET i == IndexOf(s, <<"/">>)
    IN  IF i = 0 THEN <<s>>
        ELSE <<SubSeq(s, 1, i - 1)>> \o SplitSlash(SubSeq(s, i + 1, Len(s)))

\* segs.join('/')
RECURSIVE JoinSlash(_)
JoinSlash(segs) ==
    IF Len(segs) = 0 THEN <<>>
    ELSE IF Len(segs) = 1 THEN segs[1]
    ELSE segs[1] \o <<"/">> \o JoinSlash(Tail(segs))

----------------------------------------------------------------------------
(* The regular expressions built from a profile.  A pattern is a sequence   *)
(* of items that each consume one character: a letter class, a separator    *)
(* class [/\\], a literal (compared under the i flag) or, for a dot in an   *)
(* interpolated username or sub-path, any character.                        *)

LetterItem == [kind |-> "letter", c |-> ""]
SepItem == [kind |-> "sep", c |-> ""]
LitItem(ch) == IF ch = "." THEN [kind |-> "any", c |-> ""] ELSE [kind |-> "lit", c |-> ch]

Lits(s) == [i \in 1..Len(s) |-> LitItem(s[i])]

ItemMatches(item, ch) ==
    CASE item.kind = "letter" -> IsLetter(ch)
      [] item.kind = "sep" -> IsSep(ch)
      [] item.kind = "any" -> TRUE
      [] OTHER -> Lower(ch) = Lower(item.c)

MatchAt(s, i, pat) ==
    /\ i + Len(pat) - 1 <= Len(s)
    /\ \A k \in 1..Len(pat) : ItemMatches(pat[k], s[i + k - 1])

\* pattern.test(s) for a pattern without the ^ anchor
RegexTest(s, pat) == \E i \in 1..Len(s) : MatchAt(s, i, pat)

\* s.replace(pattern, ''): the first match only
RegexRemoveFirst(s, pat) ==
    IF RegexTest(s, pat)
    THEN LET i == CHOOSE k \in 1..Len(s) :
                      MatchAt(s, k, pat) /\ \A j \in 1..(k - 1) : ~MatchAt(s, j, pat)
         IN  SubSeq(s, 1, i - 1) \o SubSeq(s, i + Len(pat), Len(s))
    ELSE s

S_Users == <<"U", "s", "e", "r", "s">>
S_UsersRoot == <<"/", "U", "s", "e", "r", "s", "/">>

\* [A-Za-z]:[/\\]Users[/\\]${username}[/\\]
WinUserPattern(username) ==
    <<LetterItem, LitItem(":"), SepItem>> \o Lits(S_Users) \o <<SepItem>>
        \o Lits(username) \o <<SepItem>>

\* sourceSubPath.replace(/[/\\]/g, '[/\\\\]') interpolated after a leading [/\\]
SubPathPart(subPath) ==
    IF subPath = <<>> THEN <<>>
    ELSE <<SepItem>> \o [i \in 1..Len(subPath) |->
                            IF IsSep(subPath[i]) THEN SepItem ELSE LitItem(subPath[i])]

\* [A-Za-z]:[/\\]Users[/\\]${username}${subPathPart}[/\\]
WinRootPattern(username, subPath) ==
    <<LetterItem, LitItem(":"), SepItem>> \o Lits(S_Users) \o <<SepItem>>
        \o Lits(username) \o SubPathPart(subPath) \o <<SepItem>>

----------------------------------------------------------------------------
(* encodeURIComponent / decodeURIComponent over printable ASCII *)

HexDigitsUpper == <<"0", "1", "2", "3", "4", "5", "6", "7", "8", "9",
                    "A", "B", "C", "D", "E", "F">>

HexUppers == Range(HexDigitsUpper)

HexChars == HexUppers \cup {"a", "b", "c", "d", "e", "f"}

IsHex(c) == c \in HexChars

HexVal(c) ==
    IF c \in HexUppers THEN IndexIn(HexDigitsUpper, c) - 1
    ELSE IndexIn(<<"a", "b", "c", "d", "e", "f">>, c) + 9

CharCode(c) == IndexIn(AsciiPrintable, c) + 31

\* The characters encodeURIComponent leaves alone.
Unreserved ==
    Range(UpperCase) \cup Range(LowerCase) \cup Range(Digits)
        \cup {"-", "_", ".", "!", "~", "*", "'", "(", ")"}

EncodeChar(c) ==
    IF c \in Unreserved THEN <<c>>
    ELSE <<"%", HexDigitsUpper[(CharCode(c) \div 16) + 1],
                HexDigitsUpper[(CharCode(c) % 16) + 1]>>

RECURSIVE encodeURIComponent(_)
encodeURIComponent(s) ==
    IF s = <<>> THEN <<>> ELSE EncodeChar(Head(s)) \o encodeURIComponent(Tail(s))

\* decodeURIComponent(s) from position i on: ok is FALSE where the call throws
\* URIError (a percent sign without two hex digits, or an escape outside
\* printable ASCII, which is a control character or a lone UTF-8 byte).
RECURSIVE DecodeFrom(_, _)
DecodeFrom(s, i) ==
    IF i > Len(s) THEN [ok |-> TRUE, val |-> <<>>]
    ELSE IF s[i] # "%"
    THEN LET r == DecodeFrom(s, i + 1)
         IN  [ok |-> r.ok, val |-> <<s[i]>> \o r.val]
    ELSE IF i + 2 > Len(s) \/ ~IsHex(s[i + 1]) \/ ~IsHex(s[i + 2])
    THEN [ok |-> FALSE, val |-> <<>>]
    ELSE LET code == 16 * HexVal(s[i + 1]) + HexVal(s[i + 2])
             r == DecodeFrom(s, i + 3)
         IN  IF code < 32 \/ code > 126 THEN [ok |-> FALSE, val |-> <<>>]
             ELSE [ok |-> r.ok, val |-> <<AsciiPrintable[code - 31]>> \o r.val]

decodeURIComponent(s) == DecodeFrom(s, 1)

\* Mutation of DecodeLoop: one decoding pass only.
DecodeLoop_OnePass(decoded) ==
    IF ~Includes(decoded, <<"%">>) THEN [ok |-> TRUE, val |-> decoded]
    ELSE LET next == decodeURIComponent(decoded)
         IN  IF ~next.ok THEN [ok |-> FALSE, val |-> decoded]
             ELSE [ok |-> TRUE, val |-> next.val]

\* The loop "while (decoded.includes('%')) { next = decodeURIComponent(decoded);
\* if (next === decoded) break; decoded = next }"; ok is FALSE when a pass throws.
RECURSIVE DecodeLoop(_)
DecodeLoop(decoded) ==
    IF ~Includes(decoded, <<"%">>) THEN [ok |-> TRUE, val |-> decoded]
    ELSE LET next == decodeURIComponent(decoded)
         IN  IF ~next.ok THEN [ok |-> FALSE, val |-> decoded]
             ELSE IF next.val = decoded THEN [ok |-> TRUE, val |-> decoded]
             ELSE DecodeLoop(next.val)

fullyDecodeUri(str) ==
    LET r == DecodeLoop(str) IN IF r.ok THEN r.val ELSE str

----------------------------------------------------------------------------
(* The running computer *)

getCurrentPlatform == platform

getVaultPath == vaultPath

\* The first capture of [^/]+ (darwin) or [^/\\]+ (win32) starting at position i.
RECURSIVE TakeSegment(_, _, _)
TakeSegment(s, i, stops) ==
    IF i > Len(s) \/ s[i] \in stops THEN <<>>
    ELSE <<s[i]>> \o TakeSegment(s, i + 1, stops)

UsernameOf(plat, vp) ==
    IF plat = "darwin"
    THEN IF StartsWith(vp, S_UsersRoot) THEN TakeSegment(vp, 8, {"/"}) ELSE <<>>
    ELSE IF plat = "win32"
    THEN IF MatchAt(vp, 1, <<LetterItem, LitItem(":"), SepItem>> \o Lits(S_Users) \o <<SepItem>>)
         THEN TakeSegment(vp, 10, {"/", "\\"})
         ELSE <<>>
    ELSE <<>>

getCurrentUsername == UsernameOf(getCurrentPlatform, getVaultPath)

----------------------------------------------------------------------------
(* Classification and translation *)

NoComputer == [id |-> 0, platform |-> "none", username |-> <<>>, subPath |-> <<>>]

IsLive(computer) ==
    computer.platform = getCurrentPlatform /\ computer.username = getCurrentUsername

\* Mutation of MacUserPattern: the username is left out of the pattern.
MacUserPattern_AnyUser(username) == S_UsersRoot

\* `/Users/${computer.username}/`
MacUserPattern(username) == S_UsersRoot \o username \o <<"/">>

\* The test one loop iteration of isPathFromDifferentPlatform makes.
ForeignHit(computer, p) ==
    /\ ~IsLive(computer)
    /\ \/ computer.platform = "darwin" /\ Includes(p, MacUserPattern(computer.username))
       \/ computer.platform = "win32" /\ RegexTest(p, WinUserPattern(computer.username))

isPathFromDifferentPlatform(p) ==
    \E i \in 1..Len(computers) : ForeignHit(computers[i], p)

\* The test one loop iteration of findMatchingComputer makes.
SourceHit(computer, p) ==
    \/ computer.platform = "darwin" /\ Includes(p, MacUserPattern(computer.username))
    \/ computer.platform = "win32" /\ MatchAt(p, 1, WinUserPattern(computer.username))

findMatchingComputer(p) ==
    IF ~enableCrossPlatform \/ Len(computers) = 0 THEN NoComputer
    ELSE IF \E i \in 1..Len(computers) : SourceHit(computers[i], p)
    THEN computers[CHOOSE i \in 1..Len(computers) :
                       /\ SourceHit(computers[i], p)
                       /\ \A j \in 1..(i - 1) : ~SourceHit(computers[j], p)]
    ELSE NoComputer

\* settings.computers.find(c => c.platform === currentPlatform && c.username === currentUsername)
currentComputer ==
    IF \E i \in 1..Len(computers) : IsLive(computers[i])
    THEN computers[CHOOSE i \in 1..Len(computers) :
                       IsLive(computers[i]) /\ \A j \in 1..(i - 1) : ~IsLive(computers[j])]
    ELSE NoComputer

MacRoot(username, subPath) ==
    IF subPath # <<>> THEN S_UsersRoot \o username \o <<"/">> \o subPath \o <<"/">>
    ELSE S_UsersRoot \o username \o <<"/">>

WinRoot(username, subPath) == <<"C", ":">> \o MacRoot(username, subPath)

\* Mutation of relativePath: the sub-path is left out of the stripped source root.
relativePath_IgnoresSubPath(sourceComputer, p) ==
    IF sourceComputer.platform = "darwin"
    THEN ReplaceFirst(p, MacRoot(sourceComputer.username, <<>>), <<>>)
    ELSE SlashNormalize(RegexRemoveFirst(p, WinRootPattern(sourceComputer.username, <<>>)))

relativePath(sourceComputer, p) ==
    IF sourceComputer.platform = "darwin"
    THEN ReplaceFirst(p, MacRoot(sourceComputer.username, sourceComputer.subPath), <<>>)
    ELSE SlashNormalize(RegexRemoveFirst(p,
             WinRootPattern(sourceComputer.username, sourceComputer.subPath)))

targetRoot(computer) ==
    IF computer.platform = "darwin" THEN MacRoot(computer.username, computer.subPath)
    ELSE WinRoot(computer.username, computer.subPath)

\* Mutation of convertPathForCurrentPlatform: the test that the source is the
\* current computer is missing.
convertPath_NoIdentityTest(p) ==
    IF ~enableCrossPlatform \/ Len(computers) = 0 THEN p
    ELSE LET sourceComputer == findMatchingComputer(p)
         IN  IF sourceComputer = NoComputer THEN p
             ELSE IF currentComputer = NoComputer THEN p
             ELSE targetRoot(currentComputer) \o relativePath(sourceComputer, p)

convertPathForCurrentPlatform(p) ==
    IF ~enableCrossPlatform \/ Len(computers) = 0 THEN p
    ELSE LET sourceComputer == findMatchingComputer(p)
         IN  IF sourceComputer = NoComputer THEN p
             ELSE IF currentComputer = NoComputer \/ sourceComputer.id = currentComputer.id
             THEN p
             ELSE targetRoot(currentComputer) \o relativePath(sourceComputer, p)

----------------------------------------------------------------------------
(* Location identifiers *)

S_File2 == <<"f", "i", "l", "e", ":", "/", "/">>
S_File3 == <<"f", "i", "l", "e", ":", "/", "/", "/">>

IsDrivePath(p) == Len(p) >= 2 /\ IsLetter(p[1]) /\ p[2] = ":"

\* normalizedPath.split('/').map(segment => encodeURIComponent(segment)).join('/')
encodedPath(normalizedPath) ==
    LET segs == SplitSlash(normalizedPath)
    IN  JoinSlash([i \in 1..Len(segs) |-> encodeURIComponent(segs[i])])

\* Mutation of fixedPath: the encoded colon is not restored.
fixedPath_KeepsEscape(encoded) == encoded

\* encodedPath.replace(/^([A-Za-z])%3A/, '$1:')
fixedPath(encoded) ==
    IF Len(encoded) >= 4 /\ IsLetter(encoded[1]) /\ SubSeq(encoded, 2, 4) = <<"%", "3", "A">>
    THEN <<encoded[1], ":">> \o SubSeq(encoded, 5, Len(encoded))
    ELSE encoded

\* Mutation of pathToFileUrl: the three-slash prefix on every platform and path.
pathToFileUrl_AlwaysTriple(p) ==
    LET decodedPath == fullyDecodeUri(p)
        convertedPath == convertPathForCurrentPlatform(decodedPath)
        normalizedPath == SlashNormalize(convertedPath)
    IN  S_File3 \o fixedPath(encodedPath(normalizedPath))

pathToFileUrl(p) ==
    LET decodedPath == fullyDecodeUri(p)
        convertedPath == convertPathForCurrentPlatform(decodedPath)
        normalizedPath == SlashNormalize(convertedPath)
    IN  IF getCurrentPlatform = "win32" /\ IsDrivePath(normalizedPath)
        THEN S_File3 \o fixedPath(encodedPath(normalizedPath))
        ELSE S_File2 \o encodedPath(normalizedPath)

\* url.replace(/^file:\/\/\/?/, '')
StripFileScheme(url) ==
    IF StartsWith(url, S_File3) THEN SubSeq(url, 9, Len(url))
    ELSE IF StartsWith(url, S_File2) THEN SubSeq(url, 8, Len(url))
    ELSE url

\* The path a scan extracts from a file:// identifier: scheme stripped, fully
\* decoded, and a leading "Users/" given its slash back.
extractPath(url) ==
    LET filePath == fullyDecodeUri(StripFileScheme(url))
    IN  IF StartsWith(filePath, Tail(S_UsersRoot)) /\ ~StartsWith(filePath, <<"/">>)
        THEN <<"/">> \o filePath
        ELSE filePath

----------------------------------------------------------------------------
(* Bounds and input domains *)

MaxComputers == 2    \* registered profiles
MaxHops == 2         \* translations chained on one path

S_alice == <<"a", "l", "i", "c", "e">>
S_bob == <<"b", "o", "b">>
S_Dropbox == <<"D", "r", "o", "p", "b", "o", "x">>
S_img_cat == <<"i", "m", "g", "/", "c", "a", "t", ".", "p", "n", "g">>
S_vault == <<"v", "a", "u", "l", "t">>

Platforms == {"darwin", "win32"}

\* A profile as "Add current computer" creates it and a sub-path edit leaves it.
Profile(id, plat, user, sub) ==
    [id |-> id, platform |-> plat, username |-> user, subPath |-> sub]

\* The registries of n profiles over the given users and sub-paths: the Add
\* button refuses a (platform, username) pair that is already registered, so
\* the pairs are distinct; ids are distinct creation stamps.
RegistriesOfLen(n, users, subs) ==
    LET shapes == {f \in [1..n -> Platforms \X users \X subs] :
                      \A i, j \in 1..n :
                          i # j => <<f[i][1], f[i][2]>> # <<f[j][1], f[j][2]>>}
    IN  {[i \in 1..n |-> Profile(i, f[i][1], f[i][2], f[i][3])] : f \in shapes}

Registries(users, subs) ==
    UNION {RegistriesOfLen(n, users, subs) : n \in 0..MaxComputers}

\* The vault location of user u's computer of each platform.
VaultOf(plat, user) ==
    IF plat = "darwin" THEN S_UsersRoot \o user \o <<"/">> \o S_vault
    ELSE <<"C", ":", "\\">> \o S_Users \o <<"\\">> \o user \o <<"\\">> \o S_vault

Users == {S_alice, S_bob}
SubPaths == {<<>>, S_Dropbox}

MacPath(user, rest) == S_UsersRoot \o user \o <<"/">> \o rest
WinPath(drive, user, rest) == <<drive, ":">> \o S_UsersRoot \o user \o <<"/">> \o rest

P_tmp == <<"/", "t", "m", "p", "/", "a", " ", "b", ".", "p", "n", "g">>
P_backslash ==
    <<"C", ":", "\\", "U", "s", "e", "r", "s", "\\", "a", "l", "i", "c", "e", "\\",
      "i", "m", "g", "\\", "c", "a", "t", ".", "p", "n", "g">>

\* Paths handed to convertPathForCurrentPlatform.
Paths ==
    {MacPath(u, S_img_cat) : u \in Users}
        \cup {WinPath("C", u, S_img_cat) : u \in Users}
        \cup {MacPath(S_alice, S_Dropbox \o <<"/">> \o S_img_cat),
              WinPath("C", S_alice, S_Dropbox \o <<"/">> \o S_img_cat),
              WinPath("D", S_alice, S_img_cat)}

\* Paths handed to pathToFileUrl.
EncodePaths ==
    {P_tmp, <<"C", ":">> \o P_tmp, P_backslash,
     MacPath(S_alice, S_Dropbox \o <<"/">> \o S_img_cat),
     MacPath(S_bob, S_img_cat),
     WinPath("D", S_alice, S_img_cat)}

----------------------------------------------------------------------------
(* The path operations, applied to inputs drawn from Paths and EncodePaths  *)
(* with the cross-platform feature switched on                              *)

NoNode == [src |-> <<>>, converted |-> FALSE, original |-> <<>>]

NoFile == "null"

Files == {"D.md", "E.md"}

\* The file-open bookkeeping before any event: no file modified, no timer set.
OpenRest ==
    /\ lastModifiedFile = NoFile
    /\ autoConvertCrossPlatformPaths = TRUE
    /\ pending = [f \in Files |-> 0]
    /\ notes = [f \in Files |-> <<>>]
    /\ autoPc = [f \in Files |-> "idle"]
    /\ autoContent = [f \in Files |-> <<>>]
    /\ engineWrote = [f \in Files |-> FALSE]
    /\ lastEvent = [kind |-> "load", file |-> NoFile]

\* The reference-rewrite flow before offerToReplaceOtherReferences is called.
\* The registry variables where no registry action is modelled, and the
\* variables of overlapping invocations where there are none.
RegRest ==
    /\ saved = computers
    /\ saveOk = TRUE
    /\ now = 0
    /\ passPc = <<>>
    /\ passContent = <<>>
    /\ openedText = <<>>

RefRest ==
    /\ activeFile = NoFile
    /\ excludePosition = [line |-> 0, ch |-> 0]
    /\ embedCache = [f \in Files |-> <<>>]
    /\ filteredRefs = <<>>
    /\ refPc = "idle"
    /\ confirmResult = "none"
    /\ timerSet = FALSE
    /\ noticeState = "none"
    /\ noteWrites = [f \in Files |-> 0]
    /\ deleted = {}

InitRest ==
    /\ path = <<>>
    /\ foreign = FALSE
    /\ source = NoComputer
    /\ out = <<>>
    /\ op = "init"
    /\ trail = <<>>
    /\ docText = <<>>
    /\ content = <<>>
    /\ scanPc = "idle"
    /\ img = NoNode
    /\ writes = 0
    /\ convertedCount = -1
    /\ scanPasses = 0
    /\ identifier = <<>>
    /\ encodings = 0
    /\ OpenRest
    /\ RefRest
    /\ RegRest

Init ==
    /\ computers \in Registries(Users, SubPaths)
    /\ enableCrossPlatform = TRUE
    /\ platform \in Platforms
    /\ vaultPath \in {VaultOf(platform, u) : u \in Users}
    /\ InitRest

Hop(p) ==
    [platform |-> getCurrentPlatform, username |-> getCurrentUsername,
     live |-> currentComputer, src |-> findMatchingComputer(p),
     foreign |-> isPathFromDifferentPlatform(p),
     input |-> p, output |-> convertPathForCurrentPlatform(p)]

\* One call of convertPathForCurrentPlatform on a fresh path.
Translate(p) ==
    /\ op = "init"
    /\ path' = p
    /\ foreign' = isPathFromDifferentPlatform(p)
    /\ source' = findMatchingComputer(p)
    /\ out' = convertPathForCurrentPlatform(p)
    /\ op' = "translate"
    /\ trail' = <<Hop(p)>>
    /\ UNCHANGED <<computers, enableCrossPlatform, platform, vaultPath,
                   docText, content, scanPc, img, writes,
                   convertedCount, scanPasses, codecVars, openVars, refVars, regVars,
                   passVars>>

\* The vault (with its synced settings) is opened on the computer whose profile
\* was the source of the last translation.
ReopenOnSourceComputer ==
    /\ op = "translate"
    /\ trail[Len(trail)].src # NoComputer
    /\ <<trail[Len(trail)].src.platform, trail[Len(trail)].src.username>>
           # <<getCurrentPlatform, getCurrentUsername>>
    /\ platform' = trail[Len(trail)].src.platform
    /\ vaultPath' = VaultOf(trail[Len(trail)].src.platform, trail[Len(trail)].src.username)
    /\ UNCHANGED <<computers, enableCrossPlatform, path, foreign, source, out, op,
                   trail, docText, content, scanPc, img, writes,
                   convertedCount, scanPasses, codecVars, openVars, refVars, regVars,
                   passVars>>

\* convertPathForCurrentPlatform applied to the path the previous call returned.
TranslateAgain ==
    /\ op = "translate"
    /\ Len(trail) < MaxHops
    /\ path' = out
    /\ foreign' = isPathFromDifferentPlatform(out)
    /\ source' = findMatchingComputer(out)
    /\ out' = convertPathForCurrentPlatform(out)
    /\ trail' = Append(trail, Hop(out))
    /\ UNCHANGED <<computers, enableCrossPlatform, platform, vaultPath, op,
                   docText, content, scanPc, img, writes,
                   convertedCount, scanPasses, codecVars, openVars, refVars, regVars,
                   passVars>>

\* One call of pathToFileUrl.
Encode(p) ==
    /\ op = "init"
    /\ path' = p
    /\ foreign' = isPathFromDifferentPlatform(p)
    /\ source' = findMatchingComputer(p)
    /\ out' = pathToFileUrl(p)
    /\ op' = "encode"
    /\ UNCHANGED <<computers, enableCrossPlatform, platform, vaultPath, trail,
                   docText, content, scanPc, img, writes,
                   convertedCount, scanPasses, codecVars, openVars, refVars, regVars,
                   passVars>>

\* The identifier pathToFileUrl produced is read back as a scan reads an embed.
Decode ==
    /\ op = "encode"
    /\ out' = extractPath(out)
    /\ op' = "decode"
    /\ UNCHANGED <<computers, enableCrossPlatform, platform, vaultPath, path, foreign,
                   source, trail, docText, content, scanPc, img, writes,
                   convertedCount, scanPasses, codecVars, openVars, refVars, regVars,
                   passVars>>

Next ==
    \/ \E p \in Paths : Translate(p)
    \/ ReopenOnSourceComputer
    \/ TranslateAgain
    \/ \E p \in EncodePaths : Encode(p)
    \/ Decode

Spec == Init /\ [][Next]_vars

----------------------------------------------------------------------------
(* Properties of translation, checked under Spec *)

\* Profile c is the live profile of the computer that made hop h.
LiveAt(h, c) == c.platform = h.platform /\ c.username = h.username

RegisteredLiveAt(h) == \E i \in 1..Len(computers) : LiveAt(h, computers[i])

P_alice_dropbox_cat == MacPath(S_alice, S_Dropbox \o <<"/">> \o S_img_cat)

ExampleRegistry ==
    <<Profile(1, "darwin", S_alice, S_Dropbox), Profile(2, "win32", S_alice, <<>>)>>

ExampleCase ==
    /\ computers = ExampleRegistry
    /\ enableCrossPlatform
    /\ Len(trail) >= 1
    /\ trail[1].platform = "win32"
    /\ trail[1].username = S_alice
    /\ trail[1].input = P_alice_dropbox_cat

\* C1: with A = {macos, alice, Dropbox} and B = {windows, alice, no sub-path}
\* registered in that order and B live, /Users/alice/Dropbox/img/cat.png is
\* classified as coming from A and is translated to C:/Users/alice/img/cat.png.
C1_Example ==
    ExampleCase =>
        /\ trail[1].src = ExampleRegistry[1]
        /\ trail[1].foreign
        /\ trail[1].output = WinPath("C", S_alice, S_img_cat)

C1_Witness == ExampleCase /\ op = "translate" /\ out = WinPath("C", S_alice, S_img_cat)

\* C2: a translation returns its input unchanged whenever no registered
\* profile has the live (platform, username) pair, or the profile matched as
\* the source of the path is the live profile itself.
C2_Unchanged ==
    \A k \in 1..Len(trail) :
        (\/ ~RegisteredLiveAt(trail[k])
         \/ trail[k].src # NoComputer /\ LiveAt(trail[k], trail[k].src))
            => trail[k].output = trail[k].input

\* The source is the live profile, whose sub-path the input does not carry, and
\* another profile is registered: only the identity test keeps the path as it is.
C2_Witness ==
    /\ op = "translate"
    /\ enableCrossPlatform
    /\ Len(trail) = 1
    /\ trail[1].src # NoComputer
    /\ LiveAt(trail[1], trail[1].src)
    /\ trail[1].src.subPath = S_Dropbox
    /\ trail[1].input = MacPath(S_alice, S_img_cat)
    /\ out = path

\* The root prefix of profile c (its sub-path included) occurs in path p, so that
\* stripping it leaves a remainder.
RootOccurs(c, p) ==
    IF c.platform = "darwin" THEN Includes(p, MacRoot(c.username, c.subPath))
    ELSE RegexTest(p, WinRootPattern(c.username, c.subPath))

\* C3: when the matched source profile's root prefix does not occur in the
\* input, the translation returns the input unmodified (never the live root
\* prefix followed by the un-stripped input).
C3_FallsBackToOriginal ==
    \A k \in 1..Len(trail) :
        (trail[k].src # NoComputer /\ ~RootOccurs(trail[k].src, trail[k].input))
            => trail[k].output = trail[k].input

\* Path p is written in profile c's own convention: it starts with the root
\* prefix a translation towards c produces.
InConventionOf(c, p) == StartsWith(p, targetRoot(c))

\* Hops 1 and 2 translate a path of A's convention with B live, then the
\* result with A live, A and B being different registered profiles.
RoundTripCase ==
    /\ enableCrossPlatform
    /\ Len(trail) = 2
    /\ trail[1].src # NoComputer
    /\ trail[1].live # NoComputer
    /\ trail[1].src.id # trail[1].live.id
    /\ InConventionOf(trail[1].src, trail[1].input)
    /\ LiveAt(trail[2], trail[1].src)
    /\ trail[2].input = trail[1].output

\* C4: translation is symmetric: translating p of A's convention with B live
\* and the result with A live yields p again, the intermediate result being in
\* B's convention.
C4_RoundTrip ==
    RoundTripCase =>
        /\ InConventionOf(trail[1].live, trail[1].output)
        /\ trail[2].output = trail[1].input

\* C5: classification never selects the live profile as the source of a path:
\* findMatchingComputer does not return the profile with the live pair, and a
\* path in the live computer's own convention is not classified as foreign.
C5_NeverSelectsLive ==
    \A k \in 1..Len(trail) :
        /\ trail[k].src # NoComputer => ~LiveAt(trail[k], trail[k].src)
        /\ (trail[k].live # NoComputer /\ InConventionOf(trail[k].live, trail[k].input))
               => ~trail[k].foreign

----------------------------------------------------------------------------
(* Properties of location identifiers, checked under Spec *)

\* <letter>:/... , a Windows absolute path
IsWindowsPath(p) == Len(p) >= 3 /\ IsLetter(p[1]) /\ p[2] = ":" /\ p[3] = "/"

\* /... , a macOS-style absolute path
IsMacPath(p) == StartsWith(p, <<"/">>)

\* file:///<letter>:/...
DriveForm(url) ==
    /\ StartsWith(url, S_File3)
    /\ Len(url) >= 11
    /\ IsLetter(url[9])
    /\ url[10] = ":"
    /\ url[11] = "/"

\* C8: for every absolute path p (macOS-style or Windows-style, forward
\* slashes, no percent sign) that needs no translation, reading back the
\* identifier pathToFileUrl(p) yields p exactly.
C8_DecodeOfEncode ==
    (/\ op = "decode"
     /\ IsMacPath(path) \/ IsWindowsPath(path)
     /\ ~Includes(path, <<"%">>)
     /\ ~Includes(path, <<"\\">>)
     /\ convertPathForCurrentPlatform(path) = path)
        => out = path

C10_NeverTripleSlash ==
    (op = "encode" /\ IsMacPath(path)) => ~StartsWith(out, S_File3)

\* C10 (amended): for a macOS-style path the output of pathToFileUrl begins
\* with exactly three slashes after the scheme name: the two of the prefix
\* file:// and the one the path itself starts with (or, when the path was
\* translated to the live Windows computer, the three of file:/// before the
\* drive letter); it never has a fourth, so no empty segment is introduced.
C10_ExactlyThreeSlashes ==
    (op = "encode" /\ IsMacPath(path)) =>
        /\ StartsWith(out, S_File3)
        /\ Len(out) >= 9
        /\ out[9] # "/"

C10_Witness ==
    /\ op = "encode"
    /\ platform = "darwin"
    /\ path = P_tmp
    /\ out = S_File2 \o <<"/", "t", "m", "p", "/", "a", "%", "2", "0", "b", ".", "p", "n", "g">>

----------------------------------------------------------------------------
(* Classification alone, over usernames that contain one another *)

S_al == <<"a", "l">>
S_ice == <<"i", "c", "e">>
S_Alice == <<"A", "l", "i", "c", "e">>
S_a_ice == <<"a", ".", "i", "c", "e">>

ClassifyUsers == {S_alice, S_al, S_ice, S_Alice, S_a_ice}

ClassifyPaths ==
    {MacPath(u, S_img_cat) : u \in ClassifyUsers \cup {S_bob}}
        \cup {WinPath("C", u, S_img_cat) : u \in ClassifyUsers \cup {S_bob}}
        \cup {P_backslash}

InitClassify ==
    /\ computers \in Registries(ClassifyUsers, {<<>>})
    /\ enableCrossPlatform = TRUE
    /\ platform \in Platforms
    /\ vaultPath \in {VaultOf(platform, u) : u \in {S_alice, S_al}}
    /\ InitRest

\* The classification a scan makes of one path: the foreign-path test and the
\* source-profile selection.
Classify(p) ==
    /\ op = "init"
    /\ path' = p
    /\ foreign' = isPathFromDifferentPlatform(p)
    /\ source' = findMatchingComputer(p)
    /\ out' = p
    /\ op' = "classify"
    /\ UNCHANGED <<computers, enableCrossPlatform, platform, vaultPath, trail,
                   docText, content, scanPc, img, writes,
                   convertedCount, scanPasses, codecVars, openVars, refVars, regVars,
                   passVars>>

NextClassify == \E p \in ClassifyPaths : Classify(p)

SpecClassify == InitClassify /\ [][NextClassify]_vars

\* s.split(/[/\\]/)
RECURSIVE SplitSeps(_)
SplitSeps(s) ==
    IF \E i \in 1..Len(s) : IsSep(s[i])
    THEN LET i == CHOOSE k \in 1..Len(s) : IsSep(s[k]) /\ \A j \in 1..(k - 1) : ~IsSep(s[j])
         IN  <<SubSeq(s, 1, i - 1)>> \o SplitSeps(SubSeq(s, i + 1, Len(s)))
    ELSE <<s>>

Fold(s) == [i \in 1..Len(s) |-> Lower(s[i])]

\* The user segments of a path: every segment that stands between two
\* separators right after a segment Users.
UserSegments(p) ==
    LET segs == SplitSeps(p)
    IN  {segs[i + 1] : i \in {k \in 1..(Len(segs) - 2) : Fold(segs[k]) = Fold(S_Users)}}

SameUser(c, segment) ==
    IF c.platform = "win32" THEN Fold(segment) = Fold(c.username)
    ELSE segment = c.username

\* C6: a path classifies to a profile only if one of its user segments,
\* delimited by separators on both sides, is the profile's username (compared
\* without letter case for a Windows profile, whose pattern has the i flag): a
\* path of user U never classifies to a profile of a different username V.
C6_UsernameSegment ==
    op = "classify" =>
        /\ source # NoComputer => \E u \in UserSegments(path) : SameUser(source, u)
        /\ foreign => \E i \in 1..Len(computers), u \in UserSegments(path) :
                          ~IsLive(computers[i]) /\ SameUser(computers[i], u)

----------------------------------------------------------------------------
(* Document scans: the content-mode pass over the persisted text of the     *)
(* active note and the render-mode pass over its rendered image node        *)

MaxScanPasses == 2     \* content-mode passes over one note

S_EmbedOpen == <<"!", "[">>
S_EmbedMid == <<"]", "(">>

\* The least index k >= from with s[k] = c, or 0.
FirstIndexFrom(s, c, from) == IndexFrom(s, <<c>>, from)

\* A match of /!\[([^\]]*)\]\((file:\/\/[^)]+)\)/ starting at position i:
\* [found, from, to] with s[from..to] the identifier (match[2]) and to + 1 the
\* closing parenthesis.
EmbedAt(s, i) ==
    IF ~OccursAt(s, S_EmbedOpen, i) THEN [found |-> FALSE, from |-> 0, to |-> 0]
    ELSE LET j == FirstIndexFrom(s, "]", i + 2)
             k == IF j = 0 THEN 0 ELSE FirstIndexFrom(s, ")", j + 2)
         IN  IF j # 0 /\ OccursAt(s, S_EmbedMid \o S_File2, j) /\ k >= j + 10
             THEN [found |-> TRUE, from |-> j + 2, to |-> k - 1]
             ELSE [found |-> FALSE, from |-> 0, to |-> 0]

\* The identifiers the loop "while ((match = fileUrlRegex.exec(content)) !== null)"
\* visits, in order, searching from position from on.
RECURSIVE EmbedUrlsFrom(_, _)
EmbedUrlsFrom(s, from) ==
    IF from > Len(s) THEN <<>>
    ELSE LET m == EmbedAt(s, from)
         IN  IF m.found THEN <<SubSeq(s, m.from, m.to)>> \o EmbedUrlsFrom(s, m.to + 2)
             ELSE EmbedUrlsFrom(s, from + 1)

EmbedUrls(s) == EmbedUrlsFrom(s, 1)

\* The loop body for the identifiers urls[k..]: acc is [newContent, convertedCount].
RECURSIVE ScanLoop(_, _, _)
ScanLoop(urls, k, acc) ==
    IF k > Len(urls) THEN acc
    ELSE LET originalUrl == urls[k]
             filePath == extractPath(originalUrl)
         IN  IF isPathFromDifferentPlatform(filePath)
             THEN LET convertedPath == convertPathForCurrentPlatform(filePath)
                      newUrl == pathToFileUrl(convertedPath)
                  IN  ScanLoop(urls, k + 1,
                               [newContent |-> ReplaceFirst(acc.newContent, originalUrl, newUrl),
                                convertedCount |-> acc.convertedCount + 1])
             ELSE ScanLoop(urls, k + 1, acc)

\* What a content-mode pass that read text c computes.
contentScan(c) == ScanLoop(EmbedUrls(c), 1, [newContent |-> c, convertedCount |-> 0])

\* convertCrossPlatformPaths with the feature disabled: it shows a notice and
\* returns before it reads the note.
ConvertCommandDisabled ==
    /\ scanPc = "idle"
    /\ ~enableCrossPlatform
    /\ UNCHANGED vars

\* convertCrossPlatformPaths up to "await this.app.vault.read(activeFile)".
StartConvertCommand ==
    /\ scanPc = "idle"
    /\ scanPasses < MaxScanPasses
    /\ enableCrossPlatform
    /\ content' = docText
    /\ scanPc' = "command"
    /\ scanPasses' = scanPasses + 1
    /\ UNCHANGED <<computers, enableCrossPlatform, platform, vaultPath, path, foreign,
                   source, out, op, trail, docText, img, writes,
                   convertedCount, codecVars, openVars, refVars, regVars, passVars>>

\* autoConvertOnFileOpen(file) up to "await this.app.vault.read(file)".  The
\* file-open handler schedules it 300 ms ahead, so the settings it finds are
\* those of the moment it runs.
StartAutoConvert ==
    /\ scanPc = "idle"
    /\ scanPasses < MaxScanPasses
    /\ content' = docText
    /\ scanPc' = "auto"
    /\ scanPasses' = scanPasses + 1
    /\ UNCHANGED <<computers, enableCrossPlatform, platform, vaultPath, path, foreign,
                   source, out, op, trail, docText, img, writes,
                   convertedCount, codecVars, openVars, refVars, regVars, passVars>>

\* The rest of either content-mode pass: the loop over the embeds of the text
\* read, then vault.modify when convertedCount > 0.
FinishContentScan ==
    /\ scanPc \in {"command", "auto"}
    /\ LET r == contentScan(content)
       IN  /\ convertedCount' = r.convertedCount
           /\ IF r.convertedCount > 0
              THEN docText' = r.newContent /\ writes' = writes + 1
              ELSE UNCHANGED <<docText, writes>>
    /\ scanPc' = "idle"
    /\ content' = <<>>
    /\ UNCHANGED <<computers, enableCrossPlatform, platform, vaultPath, path, foreign,
                   source, out, op, trail, img, scanPasses, codecVars, openVars,
                   refVars, regVars, passVars>>

S_App == <<"a", "p", "p", ":", "/", "/">>

\* match[1] of src.match(/^app:\/\/[^/]+\/(.+)$/), or <<>> when there is no match.
AppRest(src) ==
    LET host == TakeSegment(src, 7, {"/"})
    IN  IF StartsWith(src, S_App) /\ Len(host) >= 1 /\ 7 + Len(host) < Len(src)
        THEN SubSeq(src, 8 + Len(host), Len(src))
        ELSE <<>>

\* extractedPath of the render-mode pass; <<>> makes the pass return.
extractedPath(src) ==
    LET raw == IF StartsWith(src, S_App) THEN fullyDecodeUri(AppRest(src))
               ELSE IF StartsWith(src, S_File2) THEN fullyDecodeUri(StripFileScheme(src))
               ELSE <<>>
    IN  IF StartsWith(raw, Tail(S_UsersRoot)) /\ ~StartsWith(raw, <<"/">>)
        THEN <<"/">> \o raw
        ELSE raw

\* Mutation of convertImageSrcForRendering: the converted marker is not tested.
convertImageSrc_NoMarkerTest(node) ==
    IF node.src = <<>> THEN node
    ELSE LET p == extractedPath(node.src)
         IN  IF p = <<>> \/ ~isPathFromDifferentPlatform(p) THEN node
             ELSE LET convertedPath == convertPathForCurrentPlatform(p)
                  IN  IF convertedPath = p THEN node
                      ELSE [src |-> pathToFileUrl(convertedPath),
                            converted |-> TRUE,
                            original |-> node.src]

\* The node convertImageSrcForRendering leaves.
convertImageSrcForRendering(node) ==
    IF node.src = <<>> \/ node.converted THEN node
    ELSE LET p == extractedPath(node.src)
         IN  IF p = <<>> \/ ~isPathFromDifferentPlatform(p) THEN node
             ELSE LET convertedPath == convertPathForCurrentPlatform(p)
                  IN  IF convertedPath = p THEN node
                      ELSE [src |-> pathToFileUrl(convertedPath),
                            converted |-> TRUE,
                            original |-> node.src]

\* Mutation of RenderPass: the converted target is also written into the note.
RenderPass_PersistsTarget ==
    /\ img' = convertImageSrcForRendering(img)
    /\ op' = IF img.converted THEN "renderSkipped" ELSE "render"
    /\ IF img' # img
       THEN docText' = ReplaceFirst(docText, img.src, img'.src) /\ writes' = writes + 1
       ELSE UNCHANGED <<docText, writes>>
    /\ UNCHANGED <<computers, enableCrossPlatform, platform, vaultPath, path, foreign,
                   source, out, trail, content, scanPc,
                   convertedCount, scanPasses, codecVars, openVars, refVars, regVars,
                   passVars>>

\* One render-mode pass over the view; op tells whether the pass found the
\* node already carrying data-xplatform-converted.
RenderPass ==
    /\ img' = convertImageSrcForRendering(img)
    /\ op' = IF img.converted THEN "renderSkipped" ELSE "render"
    /\ UNCHANGED <<computers, enableCrossPlatform, platform, vaultPath, path, foreign,
                   source, out, trail, docText, content, scanPc, writes,
                   convertedCount, scanPasses, codecVars, openVars, refVars, regVars,
                   passVars>>

\* The settings toggle "Enable cross-platform path conversion".
ToggleCrossPlatform ==
    /\ enableCrossPlatform' = ~enableCrossPlatform
    /\ UNCHANGED <<computers, platform, vaultPath, path, foreign, source, out, op,
                   trail, docText, content, scanPc, img, writes,
                   convertedCount, scanPasses, codecVars, openVars, refVars, regVars,
                   passVars>>

Embed(url) == S_EmbedOpen \o S_EmbedMid \o url \o <<")">>

U_bob == S_File2 \o MacPath(S_bob, S_img_cat)
U_aliceMac == S_File2 \o MacPath(S_alice, S_Dropbox \o <<"/">> \o S_img_cat)
U_aliceWin == S_File3 \o WinPath("C", S_alice, S_img_cat)

\* The rendered src of an embed: the identifier itself, or the app:// form the
\* host gives a local file.
AppUrl(url) == S_App \o <<"l", "o", "c", "a", "l", "/">> \o StripFileScheme(url)

\* A note and its rendered image node.
Scenes ==
    {<<Embed(u), u>> : u \in {U_bob, U_aliceMac, U_aliceWin}}
        \cup {<<Embed(u), AppUrl(u)>> : u \in {U_bob, U_aliceMac}}
        \cup {<<Embed(U_bob) \o <<" ">> \o Embed(U_aliceMac), U_aliceMac>>}

InitScan ==
    /\ computers \in Registries(Users, {<<>>}) \cup {ExampleRegistry}
    /\ enableCrossPlatform = TRUE
    /\ platform \in Platforms
    /\ vaultPath \in {VaultOf(platform, u) : u \in Users}
    /\ path = <<>>
    /\ foreign = FALSE
    /\ source = NoComputer
    /\ out = <<>>
    /\ op = "init"
    /\ trail = <<>>
    /\ \E scene \in Scenes :
           /\ docText = scene[1]
           /\ img = [src |-> scene[2], converted |-> FALSE, original |-> <<>>]
    /\ content = <<>>
    /\ scanPc = "idle"
    /\ writes = 0
    /\ convertedCount = -1
    /\ scanPasses = 0
    /\ identifier = <<>>
    /\ encodings = 0
    /\ OpenRest
    /\ RefRest
    /\ RegRest

NextScan ==
    \/ ConvertCommandDisabled
    \/ StartConvertCommand
    \/ StartAutoConvert
    \/ FinishContentScan
    \/ RenderPass
    \/ ToggleCrossPlatform

SpecScan == InitScan /\ [][NextScan]_vars

----------------------------------------------------------------------------
(* A path of an unregistered user *)

P_bob_cat == MacPath(S_bob, S_img_cat)

NoProfileOf(username) ==
    \A i \in 1..Len(computers) : computers[i].username # username

\* A note all of whose embeds are of /Users/bob/img/cat.png, rendered as a
\* node whose src is that identifier or its app:// form.
OnlyBobEmbedded ==
    LET urls == EmbedUrls(docText)
    IN  /\ urls # <<>>
        /\ \A k \in 1..Len(urls) : urls[k] = U_bob
        /\ img.src \in {U_bob, AppUrl(U_bob)}

\* C7: when no registered profile has username bob, /Users/bob/img/cat.png
\* classifies to none, and no step of a content-mode or render-mode pass over a
\* note that embeds only that path changes the note's text or the rendered
\* node, or writes the note.
C7_UnregisteredUntouched ==
    [][(NoProfileOf(S_bob) /\ OnlyBobEmbedded) =>
          /\ findMatchingComputer(P_bob_cat) = NoComputer
          /\ ~isPathFromDifferentPlatform(P_bob_cat)
          /\ docText' = docText
          /\ img' = img
          /\ writes' = writes]_vars

\* A content-mode pass and then a render-mode pass have completed over the bob
\* note, on a computer whose registry holds a profile of another platform.
C7_Witness ==
    /\ NoProfileOf(S_bob)
    /\ OnlyBobEmbedded
    /\ enableCrossPlatform
    /\ \E i \in 1..Len(computers) : ~IsLive(computers[i])
    /\ scanPc = "idle"
    /\ convertedCount = 0
    /\ op = "render"
    /\ writes = 0
    /\ ~img.converted

----------------------------------------------------------------------------
(* Decoding of identifiers: what a scan extracts from the identifier of an  *)
(* embed, for identifiers whose path was percent-encoded one or more times  *)
(* and for identifiers with a malformed escape                              *)

MaxEncodings == 3    \* times the path of an identifier was percent-encoded

P_percent == <<"/", "t", "m", "p", "/", "1", "0", "0", "%", ".", "p", "n", "g">>

\* Plain paths that producers wrote into identifiers.
DecodePaths ==
    {WinPath("C", S_alice, S_img_cat), MacPath(S_alice, S_img_cat), P_tmp,
     <<"C", ":">> \o P_tmp, P_backslash, P_percent}

Schemes == {S_File2, S_File3}

\* The path p percent-encoded k times, segment by segment.
RECURSIVE EncodeTimes(_, _)
EncodeTimes(p, k) == IF k = 0 THEN p ELSE encodedPath(EncodeTimes(p, k - 1))

\* Identifier bodies that no encoding of a path yields: a doubly encoded space
\* followed by a percent sign that starts no escape.
RawBodies ==
    {<<"t", "m", "p", "/", "a", "%", "2", "5", "2", "0", "b", "%", "z", "z">>,
     <<"t", "m", "p", "/", "a", "%", "2", "5", "2", "0", "b", "%", "2", "5">>}

InitDecode ==
    /\ computers = <<>>
    /\ enableCrossPlatform = TRUE
    /\ platform \in Platforms
    /\ vaultPath = VaultOf(platform, S_alice)
    /\ foreign = FALSE
    /\ source = NoComputer
    /\ out = <<>>
    /\ op = "init"
    /\ trail = <<>>
    /\ docText = <<>>
    /\ content = <<>>
    /\ scanPc = "idle"
    /\ img = NoNode
    /\ writes = 0
    /\ convertedCount = -1
    /\ scanPasses = 0
    /\ OpenRest
    /\ RefRest
    /\ RegRest
    /\ \/ \E p \in DecodePaths, k \in 1..MaxEncodings, scheme \in Schemes :
              /\ path = p
              /\ encodings = k
              /\ identifier = scheme \o EncodeTimes(p, k)
       \/ \E body \in RawBodies :
              /\ path = <<>>
              /\ encodings = 0
              /\ identifier = S_File3 \o body

\* "let filePath = this.fullyDecodeUri(originalUrl.replace(/^file:\/\/\/?/, ''))"
\* and the restoring of the slash before Users/, on the identifier of one embed.
DecodeIdentifier ==
    /\ op = "init"
    /\ out' = extractPath(identifier)
    /\ op' = "decode"
    /\ UNCHANGED <<computers, enableCrossPlatform, platform, vaultPath, path, foreign,
                   source, trail, docText, content, scanPc, img, writes,
                   convertedCount, scanPasses, codecVars, openVars, refVars, regVars,
                   passVars>>

NextDecode == DecodeIdentifier

SpecDecode == InitDecode /\ [][NextDecode]_vars

U_example ==
    S_File3 \o <<"C", "%", "3", "A">> \o S_UsersRoot \o S_alice \o <<"/">> \o S_img_cat

\* C11: file:///C%3A/Users/alice/img/cat.png decodes to
\* C:/Users/alice/img/cat.png, and an identifier whose path (free of literal
\* percent signs) was percent-encoded k >= 1 times decodes to the same path as
\* the identifier with the path encoded once.
C11_DecodeFixedPoint ==
    op = "decode" =>
        /\ identifier = U_example => out = WinPath("C", S_alice, S_img_cat)
        /\ \A scheme \in Schemes :
               (/\ encodings >= 1
                /\ ~Includes(path, <<"%">>)
                /\ identifier = scheme \o EncodeTimes(path, encodings))
                   => out = extractPath(scheme \o EncodeTimes(path, 1))

\* The identifier of C:/Users/alice/img/cat.png encoded twice or more (its
\* colon stands as %253A or deeper) has been decoded to the plain path.
C11_Witness ==
    /\ op = "decode"
    /\ encodings >= 2
    /\ path = WinPath("C", S_alice, S_img_cat)
    /\ identifier = S_File3 \o EncodeTimes(path, encodings)
    /\ Includes(identifier, <<"%", "2", "5">>)
    /\ out = path

\* The result of the last decoding pass that did not throw.
RECURSIVE LastSuccessfulDecode(_)
LastSuccessfulDecode(decoded) ==
    IF ~Includes(decoded, <<"%">>) THEN decoded
    ELSE LET next == decodeURIComponent(decoded)
         IN  IF ~next.ok \/ next.val = decoded THEN decoded
             ELSE LastSuccessfulDecode(next.val)

\* C12: when a decoding pass of fullyDecodeUri throws after at least one pass
\* succeeded, the scan goes on with the result of the last successful pass,
\* not with the undecoded input.
C12_LastSuccessfulPass ==
    op = "decode" =>
        LET body == StripFileScheme(identifier)
        IN  (decodeURIComponent(body).ok /\ ~DecodeLoop(body).ok) =>
                /\ out = LastSuccessfulDecode(body)
                /\ out # body

----------------------------------------------------------------------------
(* Repeated scans *)

\* A step that ends a content-mode pass.
ContentPassEnds == scanPc # "idle" /\ scanPc' = "idle"

\* C13: a content-mode pass that runs after an earlier pass has finished, on
\* the text that pass left, converts zero embeds and leaves the text unchanged.
C13_SecondPassConvertsNothing ==
    [][(ContentPassEnds /\ convertedCount >= 0) =>
          /\ convertedCount' = 0
          /\ docText' = docText
          /\ writes' = writes]_vars

\* C14: a node that carries the converted marker is left as it is by every
\* later render-mode pass, so its display target is rewritten at most once: a
\* step changes the target only of an unmarked node, and marks it.
C14_MarkedNodeSkipped ==
    [][/\ img.converted => img' = img
       /\ img'.src # img.src => (~img.converted /\ img'.converted)]_vars

\* A render-mode pass has run over a node that an earlier pass converted.
C14_Witness ==
    /\ op = "renderSkipped"
    /\ img.converted
    /\ img.src # img.original
    /\ img.original \in {U_aliceMac, AppUrl(U_aliceMac), U_bob, AppUrl(U_bob), U_aliceWin}

\* A step of a render-mode pass: only such a step changes the node or op.
RenderStep == img' # img \/ op' # op

\* C15: a render-mode pass changes only the node (target, marker, stored
\* original) and leaves the persisted text unchanged and unwritten.
C15_RenderNeverWrites ==
    [][RenderStep =>
          /\ docText' = docText
          /\ writes' = writes
          /\ content' = content
          /\ img'.src # img.src => (img'.converted /\ img'.original = img.src)]_vars

\* A render-mode pass has converted the node while the note still holds the
\* original identifier and was never written.
C15_Witness ==
    /\ op = "render"
    /\ img.converted
    /\ img.src # img.original
    /\ docText = Embed(img.original)
    /\ writes = 0
    /\ convertedCount = -1

----------------------------------------------------------------------------
(* Embeds that need no conversion *)

\* The path classifies to no foreign profile, or its translation returns it
\* unchanged.
NeedsNoConversion(p) ==
    ~isPathFromDifferentPlatform(p) \/ convertPathForCurrentPlatform(p) = p

\* C16: in both scan variants an embed whose path classifies to no foreign
\* profile, or whose translation returns the path unchanged, is a no-op: a
\* content-mode pass over a text of such embeds counts no conversion, leaves
\* the text as it is and does not write the note, and a render-mode pass over
\* such a node leaves the node as it is.
C16_UnconvertibleIsNoOp ==
    [][/\ (/\ ContentPassEnds
           /\ \A k \in 1..Len(EmbedUrls(content)) :
                  NeedsNoConversion(extractPath(EmbedUrls(content)[k])))
          => (convertedCount' = 0 /\ docText' = docText /\ writes' = writes)
       /\ (RenderStep /\ NeedsNoConversion(extractedPath(img.src))) => img' = img]_vars

----------------------------------------------------------------------------
(* File events: the vault's modify event, the workspace's file-open event   *)
(* and the autoConvertOnFileOpen timers it sets                             *)

MaxPendingTimers == 2    \* timers set for one file and not yet fired

S_plain == <<"n", "o", "t", "e">>

OpenRegistry ==
    <<Profile(1, "darwin", S_bob, <<>>), Profile(2, "win32", S_alice, <<>>)>>

InitOpen ==
    /\ computers = OpenRegistry
    /\ enableCrossPlatform = TRUE
    /\ \E live \in {<<"win32", S_alice>>, <<"darwin", S_bob>>} :
           platform = live[1] /\ vaultPath = VaultOf(live[1], live[2])
    /\ path = <<>>
    /\ foreign = FALSE
    /\ source = NoComputer
    /\ out = <<>>
    /\ op = "init"
    /\ trail = <<>>
    /\ docText = <<>>
    /\ content = <<>>
    /\ scanPc = "idle"
    /\ img = NoNode
    /\ writes = 0
    /\ convertedCount = -1
    /\ scanPasses = 0
    /\ identifier = <<>>
    /\ encodings = 0
    /\ lastModifiedFile = NoFile
    /\ autoConvertCrossPlatformPaths = TRUE
    /\ pending = [f \in Files |-> 0]
    /\ \E other \in {S_plain, Embed(U_bob)} :
           notes = [f \in Files |-> IF f = "D.md" THEN Embed(U_bob) ELSE other]
    /\ autoPc = [f \in Files |-> "idle"]
    /\ autoContent = [f \in Files |-> <<>>]
    /\ engineWrote = [f \in Files |-> FALSE]
    /\ lastEvent = [kind |-> "load", file |-> NoFile]
    /\ RefRest
    /\ RegRest

scanVars == <<path, foreign, source, out, op, trail, docText, content, scanPc, img,
              writes, convertedCount, scanPasses>>

\* The vault's modify event for a write the engine did not make (an edit of
\* the user, a sync client): "this.lastModifiedFile = file.path".  The embeds
\* of the note stay as they are.
ExternalModify(f) ==
    /\ lastModifiedFile' = f
    /\ lastEvent' = [kind |-> "externalModify", file |-> f]
    /\ UNCHANGED <<computers, enableCrossPlatform, platform, vaultPath, scanVars,
                   codecVars, autoConvertCrossPlatformPaths, pending, notes, autoPc,
                   autoContent, engineWrote, refVars, regVars, passVars>>

\* The workspace's file-open event for file f, NoFile when the event carries null.
FileOpen(f) ==
    LET schedule == /\ f # NoFile
                    /\ enableCrossPlatform
                    /\ autoConvertCrossPlatformPaths
                    /\ lastModifiedFile # f
    IN  /\ schedule => pending[f] < MaxPendingTimers
        /\ pending' = IF schedule THEN [pending EXCEPT ![f] = @ + 1] ELSE pending
        /\ lastModifiedFile' = NoFile
        /\ lastEvent' = [kind |-> "open", file |-> f]
        /\ UNCHANGED <<computers, enableCrossPlatform, platform, vaultPath, scanVars,
                       codecVars, autoConvertCrossPlatformPaths, notes, autoPc,
                       autoContent, engineWrote, refVars, regVars, passVars>>

\* A timer set by the file-open handler fires: autoConvertOnFileOpen(f) up to
\* "await this.app.vault.read(file)".
TimerFires(f) ==
    /\ pending[f] > 0
    /\ autoPc[f] = "idle"
    /\ pending' = [pending EXCEPT ![f] = @ - 1]
    /\ autoContent' = [autoContent EXCEPT ![f] = notes[f]]
    /\ autoPc' = [autoPc EXCEPT ![f] = "read"]
    /\ lastEvent' = [kind |-> "timer", file |-> f]
    /\ UNCHANGED <<computers, enableCrossPlatform, platform, vaultPath, scanVars,
                   codecVars, lastModifiedFile, autoConvertCrossPlatformPaths, notes,
                   engineWrote, refVars, regVars, passVars>>

\* The rest of autoConvertOnFileOpen(f): the loop over the embeds and, when
\* convertedCount > 0, vault.modify, whose modify event sets lastModifiedFile.
FinishAutoConvert(f) ==
    /\ autoPc[f] = "read"
    /\ LET r == contentScan(autoContent[f])
       IN  IF r.convertedCount > 0
           THEN /\ notes' = [notes EXCEPT ![f] = r.newContent]
                /\ engineWrote' = [engineWrote EXCEPT ![f] = TRUE]
                /\ lastModifiedFile' = f
                /\ lastEvent' = [kind |-> "engineWrite", file |-> f]
           ELSE /\ lastEvent' = [kind |-> "autoDone", file |-> f]
                /\ UNCHANGED <<notes, engineWrote, lastModifiedFile, refVars>>
    /\ autoPc' = [autoPc EXCEPT ![f] = "idle"]
    /\ autoContent' = [autoContent EXCEPT ![f] = <<>>]
    /\ UNCHANGED <<computers, enableCrossPlatform, platform, vaultPath, scanVars,
                   codecVars, autoConvertCrossPlatformPaths, pending, refVars, regVars,
                   passVars>>

\* The settings toggle "Auto-convert paths on file open", shown only while
\* cross-platform conversion is enabled.
ToggleAutoConvert ==
    /\ enableCrossPlatform
    /\ autoConvertCrossPlatformPaths' = ~autoConvertCrossPlatformPaths
    /\ UNCHANGED <<computers, enableCrossPlatform, platform, vaultPath, scanVars,
                   codecVars, lastModifiedFile, pending, notes, autoPc, autoContent,
                   engineWrote, lastEvent, refVars, regVars, passVars>>

NextOpen ==
    \/ \E f \in Files : ExternalModify(f)
    \/ \E f \in Files \cup {NoFile} : FileOpen(f)
    \/ \E f \in Files : TimerFires(f)
    \/ \E f \in Files : FinishAutoConvert(f)
    \/ ToggleAutoConvert
    \/ ToggleCrossPlatform

SpecOpen == InitOpen /\ [][NextOpen]_vars

\* A step that is the file-open event of file f.
OpenStep(f) ==
    /\ lastEvent'.kind = "open"
    /\ lastEvent'.file = f
    /\ lastEvent' # lastEvent \/ pending' # pending

\* C17: the file-open event of D that comes right after the engine's
\* content-mode pass wrote D sets no auto-conversion timer, and a file-open
\* event of a file the engine has not written, with cross-platform conversion
\* and auto-convert enabled, sets one.
C17_NoRetriggerOnOwnSave ==
    [][\A f \in Files :
           OpenStep(f) =>
               /\ lastEvent = [kind |-> "engineWrite", file |-> f]
                      => pending'[f] = pending[f]
               /\ (~engineWrote[f] /\ enableCrossPlatform /\ autoConvertCrossPlatformPaths)
                      => pending'[f] = pending[f] + 1]_vars

----------------------------------------------------------------------------
(* Replacing the other references to an uploaded file: the offer, its       *)
(* confirmation with a 10 s timer, and the rewrite of every note.  Lines    *)
(* and columns count from 1 here, from 0 in the source.                     *)

NewLine == "\n"

\* content.split('\n')
RECURSIVE SplitLines(_)
SplitLines(s) ==
    LET i == IndexOf(s, <<NewLine>>)
    IN  IF i = 0 THEN <<s>>
        ELSE <<SubSeq(s, 1, i - 1)>> \o SplitLines(SubSeq(s, i + 1, Len(s)))

\* lines.join('\n')
RECURSIVE JoinLines(_)
JoinLines(lines) ==
    IF Len(lines) = 0 THEN <<>>
    ELSE IF Len(lines) = 1 THEN lines[1]
    ELSE lines[1] \o <<NewLine>> \o JoinLines(Tail(lines))

\* embed.original of the embeds of the uploaded file, and the markdown
\* `![${originalFile.basename}](${newUrl})` that replaces it.
T_embed == <<"!", "[", "[", "a", "]", "]">>
T_newMarkdown == <<"!", "[", "a", "]", "(", "u", ")">>

\* The occurrences of T_embed in one line from column c on, as positions.
RECURSIVE LinePositions(_, _, _)
LinePositions(line, l, c) ==
    LET i == IndexFrom(line, T_embed, c)
    IN  IF i = 0 THEN <<>>
        ELSE <<[line |-> l, ch |-> i, text |-> T_embed]>>
                 \o LinePositions(line, l, i + Len(T_embed))

RECURSIVE PositionsFrom(_, _)
PositionsFrom(lines, l) ==
    IF l > Len(lines) THEN <<>>
    ELSE LinePositions(lines[l], l, 1) \o PositionsFrom(lines, l + 1)

\* What the metadata cache holds for a note of this text: the embeds that
\* resolve to the uploaded file, in document order.
EmbedPositions(text) == PositionsFrom(SplitLines(text), 1)

\* The filter comparing the line only.
filteredPositions_LineOnly(notePath, positions) ==
    SelectSeq(positions,
              LAMBDA pos :
                  IF activeFile # NoFile /\ notePath = activeFile
                  THEN ~(pos.line = excludePosition.line)
                  ELSE TRUE)

\* ref.positions.filter(...) of offerToReplaceOtherReferences.
filteredPositions(notePath, positions) ==
    SelectSeq(positions,
              LAMBDA pos :
                  IF activeFile # NoFile /\ notePath = activeFile
                  THEN ~(pos.line = excludePosition.line /\ pos.ch = excludePosition.ch)
                  ELSE TRUE)

\* The vault's markdown files in the order getMarkdownFiles returns them.
FileOrder == <<"D.md", "E.md">>

\* findAllReferencesToFile and the filtering loop, over FileOrder[k..].
RECURSIVE FilterRefsFrom(_)
FilterRefsFrom(k) ==
    IF k > Len(FileOrder) THEN <<>>
    ELSE LET f == FileOrder[k]
             kept == filteredPositions(f, embedCache[f])
         IN  IF Len(embedCache[f]) > 0 /\ Len(kept) > 0
             THEN <<[notePath |-> f, positions |-> kept]>> \o FilterRefsFrom(k + 1)
             ELSE FilterRefsFrom(k + 1)

\* The comparator of sortedPositions: a before b.
Later(a, b) == IF a.line # b.line THEN a.line > b.line ELSE a.ch > b.ch

\* The positions kept in document order: the first position first.
sortedPositions_Ascending(positions) == positions

\* [...ref.positions].sort(...): the last position first.
RECURSIVE sortedPositions(_)
sortedPositions(positions) ==
    IF Len(positions) = 0 THEN <<>>
    ELSE LET k == CHOOSE i \in 1..Len(positions) :
                      \A j \in 1..Len(positions) :
                          j # i => (Later(positions[i], positions[j])
                                      \/ (~Later(positions[j], positions[i]) /\ i < j))
         IN  <<positions[k]>>
               \o sortedPositions(SubSeq(positions, 1, k - 1)
                                    \o SubSeq(positions, k + 1, Len(positions)))

\* The body of "for (const pos of sortedPositions)" on content.
ReplaceAtPosition(cont, pos) ==
    LET lines == SplitLines(cont)
    IN  IF pos.line > Len(lines) \/ lines[pos.line] = <<>> THEN cont
        ELSE LET line == lines[pos.line]
                 index == IndexFrom(line, pos.text, pos.ch)
             IN  IF index = 0 THEN cont
                 ELSE JoinLines([lines EXCEPT ![pos.line] =
                          SubSeq(line, 1, index - 1) \o T_newMarkdown
                              \o SubSeq(line, index + Len(pos.text), Len(line))])

RECURSIVE ReplacePositions(_, _)
ReplacePositions(cont, sorted) ==
    IF Len(sorted) = 0 THEN cont
    ELSE ReplacePositions(ReplaceAtPosition(cont, Head(sorted)), Tail(sorted))

L_text == <<"t">>
L_one == T_embed
L_indented == <<"x", " ">> \o T_embed
L_two == T_embed \o <<" ">> \o T_embed
L_edited == T_newMarkdown \o <<" ">> \o T_embed

\* Notes with no, one and two embeds of the uploaded file; L_edited is a
\* note whose first embed the upload has already replaced and saved.
RefNotes ==
    {L_text,
     L_one,
     L_two,
     L_edited,
     L_text \o <<NewLine>> \o L_indented,
     L_one \o <<NewLine>> \o L_one}

\* Where the user may have just replaced an embed directly.
EditPositions == {[line |-> l, ch |-> c] : l \in 1..2, c \in {1, 3, 8}}

InitRefs ==
    /\ computers = <<>>
    /\ enableCrossPlatform = TRUE
    /\ platform \in Platforms
    /\ vaultPath = VaultOf(platform, S_alice)
    /\ path = <<>>
    /\ foreign = FALSE
    /\ source = NoComputer
    /\ out = <<>>
    /\ op = "init"
    /\ trail = <<>>
    /\ docText = <<>>
    /\ content = <<>>
    /\ scanPc = "idle"
    /\ img = NoNode
    /\ writes = 0
    /\ convertedCount = -1
    /\ scanPasses = 0
    /\ identifier = <<>>
    /\ encodings = 0
    /\ lastModifiedFile = NoFile
    /\ autoConvertCrossPlatformPaths = TRUE
    /\ pending = [f \in Files |-> 0]
    /\ notes \in [Files -> RefNotes]
    /\ autoPc = [f \in Files |-> "idle"]
    /\ autoContent = [f \in Files |-> <<>>]
    /\ engineWrote = [f \in Files |-> FALSE]
    /\ lastEvent = [kind |-> "load", file |-> NoFile]
    /\ activeFile \in Files \cup {NoFile}
    /\ excludePosition \in EditPositions
    /\ embedCache = [f \in Files |-> EmbedPositions(notes[f])]
    /\ filteredRefs = <<>>
    /\ refPc = "idle"
    /\ confirmResult = "none"
    /\ timerSet = FALSE
    /\ noticeState = "none"
    /\ noteWrites = [f \in Files |-> 0]
    /\ deleted = {}
    /\ RegRest

settingVars == <<computers, enableCrossPlatform, platform, vaultPath>>

\* offerToReplaceOtherReferences up to "await this.confirmReplaceReferences":
\* it returns when nothing is left after filtering, and otherwise shows the
\* notice and sets the 10 s timer.
OfferToReplaceOtherReferences ==
    /\ refPc = "idle"
    /\ filteredRefs' = FilterRefsFrom(1)
    /\ IF Len(filteredRefs') = 0
       THEN refPc' = "done" /\ timerSet' = FALSE /\ noticeState' = "none"
       ELSE refPc' = "confirming" /\ timerSet' = TRUE /\ noticeState' = "shown"
    /\ UNCHANGED <<settingVars, scanVars, codecVars, openVars, activeFile,
                   excludePosition, embedCache, confirmResult, noteWrites, deleted,
                   regVars, passVars>>

\* A click that decides the promise whenever the notice is still shown.
ClickNotice_AlwaysDecides ==
    /\ noticeState = "shown"
    /\ noticeState' = "clicked"
    /\ confirmResult' = "true"
    /\ refPc' = "replacing"
    /\ UNCHANGED <<settingVars, scanVars, codecVars, openVars, activeFile,
                   excludePosition, embedCache, filteredRefs, timerSet, noteWrites, deleted,
                   regVars, passVars>>

\* noticeEl.onclick: notice.hide() and resolve(true), which decides the
\* promise only while it is unresolved; a click on a notice still shown after
\* the timer has resolved it leaves the flow where it is.
ClickNotice ==
    /\ noticeState = "shown"
    /\ noticeState' = "clicked"
    /\ IF refPc = "confirming"
       THEN confirmResult' = "true" /\ refPc' = "replacing"
       ELSE UNCHANGED <<confirmResult, refPc>>
    /\ UNCHANGED <<settingVars, scanVars, codecVars, openVars, activeFile,
                   excludePosition, embedCache, filteredRefs, timerSet, noteWrites, deleted,
                   regVars, passVars>>

\* The notice, constructed with a duration of 10000 ms, is taken down by the
\* host: its onclick can no longer run.  The host's timer and the timer of
\* resolve(false) are two timers, taken in either order.
NoticeExpires ==
    /\ noticeState = "shown"
    /\ noticeState' = "expired"
    /\ UNCHANGED <<settingVars, scanVars, codecVars, openVars, activeFile,
                   excludePosition, embedCache, filteredRefs, refPc, confirmResult,
                   timerSet, noteWrites, deleted, regVars, passVars>>

\* A timer whose resolve(false) also stops a rewrite already confirmed.
ConfirmTimeout_CancelsRewrite ==
    /\ timerSet
    /\ timerSet' = FALSE
    /\ IF refPc \in {"confirming", "replacing"}
       THEN confirmResult' = "false" /\ refPc' = "done"
       ELSE UNCHANGED <<confirmResult, refPc>>
    /\ UNCHANGED <<settingVars, scanVars, codecVars, openVars, activeFile,
                   excludePosition, embedCache, filteredRefs, noticeState, noteWrites,
                   deleted, regVars, passVars>>

\* The timer of confirmReplaceReferences fires: resolve(false), which decides
\* the promise only if the click has not, and then the flow returns.
ConfirmTimeout ==
    /\ timerSet
    /\ timerSet' = FALSE
    /\ IF refPc = "confirming"
       THEN confirmResult' = "false" /\ refPc' = "done"
       ELSE UNCHANGED <<confirmResult, refPc>>
    /\ UNCHANGED <<settingVars, scanVars, codecVars, openVars, activeFile,
                   excludePosition, embedCache, filteredRefs, noticeState, noteWrites,
                   deleted, regVars, passVars>>

\* The loop of replaceAllReferences running while the promise is unresolved.
ReplaceNextReference_BeforeConfirm ==
    /\ refPc \in {"confirming", "replacing"}
    /\ Len(filteredRefs) > 0
    /\ LET ref == Head(filteredRefs)
           f == ref.notePath
       IN  IF f \in deleted
           THEN UNCHANGED <<notes, noteWrites, lastModifiedFile>>
           ELSE /\ notes' = [notes EXCEPT
                               ![f] = ReplacePositions(notes[f],
                                                       sortedPositions(ref.positions))]
                /\ noteWrites' = [noteWrites EXCEPT ![f] = @ + 1]
                /\ lastModifiedFile' = f
    /\ filteredRefs' = Tail(filteredRefs)
    /\ refPc' = IF Len(filteredRefs) = 1 THEN "done" ELSE refPc
    /\ UNCHANGED <<settingVars, scanVars, codecVars, autoConvertCrossPlatformPaths,
                   pending, autoPc, autoContent, engineWrote, lastEvent, activeFile,
                   excludePosition, embedCache, confirmResult, timerSet, noticeState,
                   deleted,
                   regVars, passVars>>

\* One iteration of "for (const ref of references)" in replaceAllReferences:
\* a note that no longer exists is passed over; otherwise read, replace from
\* the last position to the first, vault.modify (whose modify event sets
\* lastModifiedFile).
ReplaceNextReference ==
    /\ refPc = "replacing"
    /\ Len(filteredRefs) > 0
    /\ LET ref == Head(filteredRefs)
           f == ref.notePath
       IN  IF f \in deleted
           THEN UNCHANGED <<notes, noteWrites, lastModifiedFile>>
           ELSE /\ notes' = [notes EXCEPT
                               ![f] = ReplacePositions(notes[f],
                                                       sortedPositions(ref.positions))]
                /\ noteWrites' = [noteWrites EXCEPT ![f] = @ + 1]
                /\ lastModifiedFile' = f
    /\ filteredRefs' = Tail(filteredRefs)
    /\ refPc' = IF Len(filteredRefs) = 1 THEN "done" ELSE "replacing"
    /\ UNCHANGED <<settingVars, scanVars, codecVars, autoConvertCrossPlatformPaths,
                   pending, autoPc, autoContent, engineWrote, lastEvent, activeFile,
                   excludePosition, embedCache, confirmResult, timerSet, noticeState,
                   deleted,
                   regVars, passVars>>

\* A loop that passes over the note whose read or write was rejected and
\* goes on with the next.
ReplaceFails_GoesOn ==
    /\ refPc = "replacing"
    /\ Len(filteredRefs) > 0
    /\ Head(filteredRefs).notePath \notin deleted
    /\ filteredRefs' = Tail(filteredRefs)
    /\ refPc' = IF Len(filteredRefs) = 1 THEN "done" ELSE "replacing"
    /\ UNCHANGED <<settingVars, scanVars, codecVars, openVars, activeFile,
                   excludePosition, embedCache, confirmResult, timerSet, noticeState,
                   noteWrites, deleted, regVars, passVars>>

\* vault.read or vault.modify of the next note is rejected: the rejection
\* leaves the loop and the flow, and is caught by uploadLocalImageToEagle,
\* which writes no note.
ReplaceFails ==
    /\ refPc = "replacing"
    /\ Len(filteredRefs) > 0
    /\ Head(filteredRefs).notePath \notin deleted
    /\ refPc' = "failed"
    /\ UNCHANGED <<settingVars, scanVars, codecVars, openVars, activeFile,
                   excludePosition, embedCache, filteredRefs, confirmResult,
                   timerSet, noticeState, noteWrites, deleted, regVars, passVars>>

\* A note found by the offer is deleted from the vault while the flow waits
\* or runs: getAbstractFileByPath no longer returns a file for it.
DeleteNote(f) ==
    /\ refPc \in {"confirming", "replacing"}
    /\ f \notin deleted
    /\ deleted' = deleted \cup {f}
    /\ UNCHANGED <<settingVars, scanVars, codecVars, openVars, activeFile,
                   excludePosition, embedCache, filteredRefs, refPc,
                   confirmResult, timerSet, noticeState, noteWrites, regVars, passVars>>

NextRefs ==
    \/ OfferToReplaceOtherReferences
    \/ ClickNotice
    \/ NoticeExpires
    \/ ConfirmTimeout
    \/ ReplaceNextReference
    \/ ReplaceFails
    \/ \E f \in Files : DeleteNote(f)

SpecRefs == InitRefs /\ [][NextRefs]_vars

\* The hits of note f that the rewrite must leave alone: the one at
\* excludePosition when f is the active file, none otherwise.
Excluded(f) ==
    IF f = activeFile
    THEN {[line |-> excludePosition.line, ch |-> excludePosition.ch]}
    ELSE {}

\* The cached hits of note f that are not excluded.
RemainingHits(f) ==
    {k \in 1..Len(embedCache[f]) :
        [line |-> embedCache[f][k].line, ch |-> embedCache[f][k].ch] \notin Excluded(f)}

\* One line read left to right, every embed not in skip written in the new form.
RECURSIVE RewriteLine(_, _, _, _)
RewriteLine(line, l, c, skip) ==
    IF c > Len(line) THEN <<>>
    ELSE IF IndexFrom(line, T_embed, c) = c /\ [line |-> l, ch |-> c] \notin skip
    THEN T_newMarkdown \o RewriteLine(line, l, c + Len(T_embed), skip)
    ELSE <<line[c]>> \o RewriteLine(line, l, c + 1, skip)

RewriteAllBut(text, skip) ==
    LET lines == SplitLines(text)
    IN  JoinLines([l \in 1..Len(lines) |-> RewriteLine(lines[l], l, 1, skip)])

\* C18: the rewrite leaves out exactly the hit at excludePosition (same line
\* and same column) of the active note and no other hit: every note the flow
\* writes gets each of its other hits in the new form and keeps the excluded
\* one, and once a confirmed flow is done a note that still exists was
\* written once if it has a hit that is not excluded and never otherwise.
C18_ExcludesExactlyThePosition ==
    /\ [](refPc = "done" /\ confirmResult = "true"
            => \A f \in Files \ deleted :
                   noteWrites[f] = IF RemainingHits(f) # {} THEN 1 ELSE 0)
    /\ [][\A f \in Files :
              (notes'[f] # notes[f] \/ noteWrites'[f] # noteWrites[f])
                  => /\ RemainingHits(f) # {}
                     /\ noteWrites'[f] = noteWrites[f] + 1
                     /\ notes'[f] = RewriteAllBut(notes[f], Excluded(f))
                     /\ Len(EmbedPositions(notes'[f]))
                            = Len(embedCache[f]) - Cardinality(RemainingHits(f))]_vars

\* Three hits in two notes, the active note's only hit excluded: the two
\* hits of the other note are rewritten and only that note is written.
C18_Witness ==
    /\ refPc = "done"
    /\ confirmResult = "true"
    /\ activeFile = "D.md"
    /\ Len(embedCache["D.md"]) = 1
    /\ RemainingHits("D.md") = {}
    /\ Len(embedCache["E.md"]) = 2
    /\ deleted = {}
    /\ noteWrites = [f \in Files |-> IF f = "E.md" THEN 1 ELSE 0]
    /\ notes["D.md"] = L_one
    /\ notes["E.md"] = T_newMarkdown \o <<" ">> \o T_newMarkdown

\* C19: the flow writes no note unless the user confirmed: while the
\* confirmation is pending, declined or timed out, or was never asked for,
\* no note has been written, and no step that ends unconfirmed changes the
\* text of a note.
C19_NoWriteUnlessConfirmed ==
    /\ [](confirmResult # "true" => \A f \in Files : noteWrites[f] = 0)
    /\ [][confirmResult' # "true" => notes' = notes]_vars

\* The offer found hits to rewrite and timed out: nothing was written.
C19_Witness ==
    /\ refPc = "done"
    /\ confirmResult = "false"
    /\ \E f \in Files : RemainingHits(f) # {}
    /\ \A f \in Files : noteWrites[f] = 0 /\ EmbedPositions(notes[f]) = embedCache[f]

\* The same flow with its scheduling: a timer that was set fires.
SpecRefsFair == SpecRefs /\ WF_vars(ConfirmTimeout)

\* Every note with a hit that is not excluded has been written once.
RewriteComplete ==
    \A f \in Files :
        \/ noteWrites[f] = IF RemainingHits(f) # {} THEN 1 ELSE 0
        \/ f \in deleted /\ noteWrites[f] = 0

\* C20: the confirmation always resolves; it resolves to decline only when
\* the timer fires on an unanswered notice, at a point where no note has been
\* written, and the flow then ends; once the user has confirmed, the result
\* stays confirmed, the timer firing later cancels nothing, and a confirmed
\* flow ends only with its rewrite complete or with a rejected read or write.
C20_ConfirmationResolves ==
    /\ (refPc = "confirming") ~> (confirmResult # "none")
    /\ [][(confirmResult = "none" /\ confirmResult' # "none")
              => /\ refPc = "confirming"
                 /\ \A f \in Files : noteWrites[f] = 0
                 /\ UNCHANGED <<notes, noteWrites>>
                 /\ confirmResult' = "false"
                        => timerSet /\ ~timerSet' /\ refPc' = "done"]_vars
    /\ [][confirmResult = "true"
              => /\ confirmResult' = "true"
                 /\ refPc' \in {"replacing", "done", "failed"}]_vars
    /\ [](confirmResult = "true" /\ refPc = "done" => RewriteComplete)

\* The user confirmed, the timer fired afterwards, and the rewrite ended.
C20_Witness ==
    /\ confirmResult = "true"
    /\ ~timerSet
    /\ refPc = "done"
    /\ RewriteComplete
    /\ \E f \in Files : noteWrites[f] = 1

\* The text of the hit pos read at its own line and column of cont.
TextAt(cont, pos) ==
    LET lines == SplitLines(cont)
    IN  IF pos.line > Len(lines) THEN <<>>
        ELSE SubSeq(lines[pos.line], pos.ch,
                    IF pos.ch + Len(pos.text) - 1 > Len(lines[pos.line])
                    THEN Len(lines[pos.line])
                    ELSE pos.ch + Len(pos.text) - 1)

\* cont with exactly the characters of the hit pos replaced by the new
\* markdown, every other line and every other character kept.
Splice(cont, pos) ==
    LET lines == SplitLines(cont)
        old == lines[pos.line]
    IN  JoinLines([l \in 1..Len(lines) |->
                      IF l # pos.line THEN lines[l]
                      ELSE SubSeq(old, 1, pos.ch - 1) \o T_newMarkdown
                               \o SubSeq(old, pos.ch + Len(pos.text), Len(old))])

\* The note the loop is about to rewrite, its positions in the order the
\* loop takes them, and the content after the first k replacements.
NextRef == Head(filteredRefs)
NextSorted == sortedPositions(NextRef.positions)
ContentAfter(k) == ReplacePositions(notes[NextRef.notePath], SubSeq(NextSorted, 1, k))

\* C21: within one note the hits are taken from the last position to the
\* first (descending line, then descending column); each replacement finds
\* the raw text of its own hit at its own line and column and replaces
\* exactly these characters, so that no other text changes and every hit not
\* yet processed still reads its own text at its own position.
C21_LastToFirstExactText ==
    (refPc = "replacing" /\ Len(filteredRefs) > 0)
        => /\ \A i, j \in 1..Len(NextSorted) :
                  i < j => Later(NextSorted[i], NextSorted[j])
           /\ \A k \in 1..Len(NextSorted) :
                  /\ TextAt(ContentAfter(k - 1), NextSorted[k]) = NextSorted[k].text
                  /\ ContentAfter(k) = Splice(ContentAfter(k - 1), NextSorted[k])
                  /\ \A m \in (k + 1)..Len(NextSorted) :
                         TextAt(ContentAfter(k), NextSorted[m]) = NextSorted[m].text

\* A note with two hits on one line is next, the later hit taken first.
C21_Witness ==
    /\ refPc = "replacing"
    /\ Len(filteredRefs) > 0
    /\ Len(NextSorted) = 2
    /\ NextSorted[1].line = NextSorted[2].line
    /\ NextSorted[1].ch > NextSorted[2].ch
    /\ ContentAfter(2) = T_newMarkdown \o <<" ">> \o T_newMarkdown

\* The notes of the flow in the order of the loop, and how many of them
\* the loop has left behind.
RefList == FilterRefsFrom(1)
Handled == Len(RefList) - Len(filteredRefs)
Running == refPc \in {"replacing", "done", "failed"}

\* The written notes are the first notes of the list.
C22_WrittenArePrefix ==
    Running
        => \A k \in 1..Len(RefList) :
               noteWrites[RefList[k].notePath] > 0
                   => \A j \in 1..k : noteWrites[RefList[j].notePath] > 0

\* C22: the notes are handled one at a time in list order: the notes left
\* behind are the first notes of the list, each of them was written exactly
\* once unless it no longer existed when its turn came, and every later note
\* is untouched, also after a rejected read or write; a step writes only the
\* note whose turn it is, once, with all its hits rewritten.
C22_HandledArePrefix ==
    /\ [](Running
            => /\ Handled \in 0..Len(RefList)
               /\ filteredRefs = SubSeq(RefList, Handled + 1, Len(RefList))
               /\ \A k \in 1..Len(RefList) :
                      LET f == RefList[k].notePath
                      IN  IF k <= Handled
                          THEN noteWrites[f] = 1 \/ (f \in deleted /\ noteWrites[f] = 0)
                          ELSE noteWrites[f] = 0
                                   /\ EmbedPositions(notes[f]) = embedCache[f]
               /\ refPc = "failed" => Handled < Len(RefList))
    /\ [][\A f \in Files :
              (notes'[f] # notes[f] \/ noteWrites'[f] # noteWrites[f])
                  => /\ refPc = "replacing"
                     /\ f = NextRef.notePath
                     /\ noteWrites'[f] = noteWrites[f] + 1
                     /\ Len(EmbedPositions(notes'[f]))
                            = Len(embedCache[f]) - Len(NextRef.positions)
                     /\ filteredRefs' = Tail(filteredRefs)]_vars

\* Two notes to rewrite, the first written, then the read or write of the
\* second rejected: the first is rewritten and the second untouched.
C22_Witness ==
    /\ refPc = "failed"
    /\ Len(RefList) = 2
    /\ Handled = 1
    /\ deleted = {}
    /\ noteWrites[RefList[1].notePath] = 1
    /\ noteWrites[RefList[2].notePath] = 0
    /\ EmbedPositions(notes[RefList[2].notePath]) = embedCache[RefList[2].notePath]

----------------------------------------------------------------------------
(* The registry of computers in the settings tab: "Add current computer",   *)
(* the delete button and the sub-path input of each registered computer,    *)
(* each followed by saveSettings, and the vault opened on another computer. *)

MaxNow == 3    \* registrations in one behaviour

S_unknown == <<"u", "n", "k", "n", "o", "w", "n">>
P_outside == <<"/", "v">>

\* detectCurrentUsername of the settings tab: 'unknown' where
\* getCurrentUsername of the plugin gives ''.
detectCurrentUsername ==
    LET u == UsernameOf(platform, vaultPath)
    IN  IF u = <<>> THEN S_unknown ELSE u

\* The computers the vault is opened on: platform and vault location.
LiveComputers ==
    {<<"darwin", VaultOf("darwin", S_alice)>>,
     <<"win32", VaultOf("win32", S_bob)>>,
     <<"darwin", P_outside>>}

InitRegistry ==
    /\ computers = <<>>
    /\ enableCrossPlatform = TRUE
    /\ \E live \in LiveComputers : platform = live[1] /\ vaultPath = live[2]
    /\ path = <<>>
    /\ foreign = FALSE
    /\ source = NoComputer
    /\ out = <<>>
    /\ op = "init"
    /\ trail = <<>>
    /\ docText = <<>>
    /\ content = <<>>
    /\ scanPc = "idle"
    /\ img = NoNode
    /\ writes = 0
    /\ convertedCount = -1
    /\ scanPasses = 0
    /\ identifier = <<>>
    /\ encodings = 0
    /\ OpenRest
    /\ RefRest
    /\ RegRest

restVars == <<enableCrossPlatform, path, foreign, source, out, trail, docText, content,
              scanPc, img, writes, convertedCount, scanPasses, codecVars, openVars,
              refVars, passVars>>

\* The index of the profile with the detected pair, 0 when there is none
\* (findIndex + 1).
existingIndex ==
    IF \E i \in 1..Len(computers) :
           computers[i].platform = platform
               /\ computers[i].username = detectCurrentUsername
    THEN CHOOSE i \in 1..Len(computers) :
             /\ computers[i].platform = platform
             /\ computers[i].username = detectCurrentUsername
             /\ \A j \in 1..(i - 1) :
                    ~(computers[j].platform = platform
                        /\ computers[j].username = detectCurrentUsername)
    ELSE 0

\* await this.plugin.saveSettings() after the registry was changed to
\* changed: saveData resolves (ok) or rejects.
SaveSettings(changed, ok) ==
    /\ saveOk' = ok
    /\ saved' = IF ok THEN changed ELSE saved

\* The click handler that pushes the profile without looking for the pair.
AddCurrentComputer_NoCheck(ok) ==
    /\ enableCrossPlatform
    /\ Len(computers) < MaxComputers
    /\ now < MaxNow
    /\ now' = now + 1
    /\ computers' = Append(computers,
                           Profile(now', platform, detectCurrentUsername, <<>>))
    /\ SaveSettings(computers', ok)
    /\ op' = "add"
    /\ UNCHANGED <<platform, vaultPath, restVars>>

\* The click handler of "Add current computer".
AddCurrentComputer(ok) ==
    /\ enableCrossPlatform
    /\ IF existingIndex > 0
       THEN /\ op' = "addRejected"
            /\ UNCHANGED <<computers, regVars>>
       ELSE /\ Len(computers) < MaxComputers
            /\ now < MaxNow
            /\ now' = now + 1
            /\ computers' = Append(computers,
                                   Profile(now', platform, detectCurrentUsername, <<>>))
            /\ SaveSettings(computers', ok)
            /\ op' = "add"
    /\ UNCHANGED <<platform, vaultPath, restVars>>

\* The click handler of the delete button of computers[i].
RemoveComputer(i, ok) ==
    /\ enableCrossPlatform
    /\ i \in 1..Len(computers)
    /\ computers' = SelectSeq(computers, LAMBDA c : c.id # computers[i].id)
    /\ SaveSettings(computers', ok)
    /\ op' = "remove"
    /\ UNCHANGED <<platform, vaultPath, now, restVars>>

\* The change handler of the sub-path input of computers[i].
EditSubPath(i, value, ok) ==
    /\ enableCrossPlatform
    /\ i \in 1..Len(computers)
    /\ computers' = [computers EXCEPT ![i].subPath = value]
    /\ SaveSettings(computers', ok)
    /\ op' = "editSubPath"
    /\ UNCHANGED <<platform, vaultPath, now, restVars>>

\* The vault is opened on a computer (the same or another): loadSettings
\* reads the registry that was stored last.
OpenVaultOn(live) ==
    /\ platform' = live[1]
    /\ vaultPath' = live[2]
    /\ computers' = saved
    /\ saveOk' = TRUE
    /\ op' = "load"
    /\ UNCHANGED <<saved, now, restVars>>

NextRegistry ==
    \/ \E ok \in BOOLEAN : AddCurrentComputer(ok)
    \/ \E i \in 1..MaxComputers, ok \in BOOLEAN : RemoveComputer(i, ok)
    \/ \E i \in 1..MaxComputers, value \in SubPaths, ok \in BOOLEAN :
           EditSubPath(i, value, ok)
    \/ \E live \in LiveComputers : OpenVaultOn(live)

SpecRegistry == InitRegistry /\ [][NextRegistry]_vars

\* The registered profiles with the pair the settings tab detects, and with
\* the pair the plugin translates for.
DetectedProfiles ==
    {i \in 1..Len(computers) :
        computers[i].platform = platform /\ computers[i].username = detectCurrentUsername}
LiveProfiles == {i \in 1..Len(computers) : IsLive(computers[i])}

\* C23: after any sequence of registrations, removals and sub-path edits at
\* most one registered profile has the live (platform, username) pair; a
\* registration happens only when no profile has the pair of this computer,
\* and a rejected one leaves the registry unchanged.
C23_AtMostOneLiveProfile ==
    /\ [](Cardinality(LiveProfiles) <= 1 /\ Cardinality(DetectedProfiles) <= 1)
    /\ [][/\ now' # now => DetectedProfiles = {} /\ Cardinality(DetectedProfiles') = 1
          /\ op' = "addRejected" => computers' = computers /\ saved' = saved]_vars

\* With this computer registered next to another one, a second click on
\* Add was rejected.
C23_Witness ==
    /\ op = "addRejected"
    /\ Len(computers) = 2
    /\ Cardinality(LiveProfiles) = 1
    /\ Cardinality(DetectedProfiles) = 1

\* C24: when saveSettings fails during an addition, a removal or a sub-path
\* edit, the registry in memory is what it was before the mutation.
C24_FailedSaveRestoresRegistry ==
    [][(op' \in {"add", "remove", "editSubPath"} /\ ~saveOk')
           => computers' = computers]_vars

----------------------------------------------------------------------------
(* Two invocations of a scan on the same note: the command and the          *)
(* auto-conversion after file-open, or two of either.  A content-mode pass  *)
(* awaits vault.read and vault.modify, so the other invocation can run      *)
(* between its read and its write; a render-mode pass has no await.         *)

Passes == {1, 2}

InitOverlap ==
    /\ computers \in Registries(Users, {<<>>})
    /\ enableCrossPlatform = TRUE
    /\ platform \in Platforms
    /\ vaultPath \in {VaultOf(platform, u) : u \in Users}
    /\ path = <<>>
    /\ foreign = FALSE
    /\ source = NoComputer
    /\ out = <<>>
    /\ op = "init"
    /\ trail = <<>>
    /\ \E scene \in Scenes :
           /\ docText = scene[1]
           /\ img = [src |-> scene[2], converted |-> FALSE, original |-> <<>>]
    /\ content = <<>>
    /\ scanPc = "idle"
    /\ writes = 0
    /\ convertedCount = -1
    /\ scanPasses = 0
    /\ identifier = <<>>
    /\ encodings = 0
    /\ OpenRest
    /\ RefRest
    /\ saved = computers
    /\ saveOk = TRUE
    /\ now = 0
    /\ passPc = [p \in Passes |-> "idle"]
    /\ passContent = [p \in Passes |-> <<>>]
    /\ openedText = docText

overlapRest == <<computers, enableCrossPlatform, platform, vaultPath, path, foreign,
                 source, out, op, trail, content, scanPc, convertedCount, scanPasses,
                 codecVars, openVars, refVars, regVars, openedText>>

\* Invocation p of a content-mode pass up to "await this.app.vault.read".
PassReads(p) ==
    /\ passPc[p] = "idle"
    /\ passPc' = [passPc EXCEPT ![p] = "read"]
    /\ passContent' = [passContent EXCEPT ![p] = docText]
    /\ UNCHANGED <<overlapRest, docText, img, writes>>

\* The rest of invocation p: the loop over the text it read, then
\* vault.modify when convertedCount > 0.
PassWrites(p) ==
    /\ passPc[p] = "read"
    /\ LET r == contentScan(passContent[p])
       IN  IF r.convertedCount > 0
           THEN docText' = r.newContent /\ writes' = writes + 1
           ELSE UNCHANGED <<docText, writes>>
    /\ passPc' = [passPc EXCEPT ![p] = "contentDone"]
    /\ UNCHANGED <<overlapRest, passContent, img>>

\* Invocation p as a render-mode pass over the view.
PassRenders(p) ==
    /\ passPc[p] = "idle"
    /\ img' = convertImageSrcForRendering(img)
    /\ passPc' = [passPc EXCEPT ![p] = "renderDone"]
    /\ UNCHANGED <<overlapRest, passContent, docText, writes>>

NextOverlap ==
    \/ \E p \in Passes : PassReads(p)
    \/ \E p \in Passes : PassWrites(p)
    \/ \E p \in Passes : PassRenders(p)

SpecOverlap == InitOverlap /\ [][NextOverlap]_vars

\* What one content-mode pass leaves of text t, and the node the view had
\* before any render-mode pass.
SinglePassText(t) ==
    LET r == contentScan(t)
    IN  IF r.convertedCount > 0 THEN r.newContent ELSE t
OpenedNode ==
    IF img.converted THEN [src |-> img.original, converted |-> FALSE, original |-> <<>>]
    ELSE img

\* C25: however two invocations on the same note interleave, once both are
\* over the note's text is what a single content-mode pass leaves of the
\* text the note had, and the rendered node is what a single render-mode
\* pass leaves of the node the view had.
C25_OverlapEqualsSinglePass ==
    (\A p \in Passes : passPc[p] \in {"contentDone", "renderDone"})
        => /\ (\E p \in Passes : passPc[p] = "contentDone")
                  => docText = SinglePassText(openedText)
           /\ (\A p \in Passes : passPc[p] = "renderDone")
                  => docText = openedText
           /\ (\E p \in Passes : passPc[p] = "renderDone")
                  => img = convertImageSrcForRendering(OpenedNode)

----------------------------------------------------------------------------
(* Registration order: a path that the patterns of several profiles match,  *)
(* in registries of up to three computers of which one may be the live one  *)

MaxRegistered == 3    \* profiles of a registry whose order is examined

S_Bob == <<"B", "o", "b">>

\* The (platform, username) pairs of the computers of bob: a Mac, and two
\* Windows computers whose user directories differ in case.
OrderPairs == {<<"darwin", S_bob>>, <<"win32", S_bob>>, <<"win32", S_Bob>>,
               <<"darwin", S_alice>>}

OrderRegistries ==
    UNION {{[i \in 1..n |-> Profile(i, f[i][1], f[i][2], <<>>)] :
               f \in {g \in [1..n -> OrderPairs] :
                         \A i, j \in 1..n : i # j => g[i] # g[j]}} :
           n \in 1..MaxRegistered}

OrderPaths ==
    {WinPath("C", S_bob, S_img_cat), WinPath("C", S_Bob, S_img_cat),
     MacPath(S_bob, S_img_cat)}

InitOrder ==
    /\ computers \in OrderRegistries
    /\ enableCrossPlatform = TRUE
    /\ \E live \in OrderPairs :
           platform = live[1] /\ vaultPath = VaultOf(live[1], live[2])
    /\ InitRest

NextOrder == \E p \in OrderPaths : Translate(p)

SpecOrder == InitOrder /\ [][NextOrder]_vars

\* The profiles other than the live one whose pattern matches the path, by
\* the test of findMatchingComputer, and the profiles that make the test of
\* isPathFromDifferentPlatform succeed.
NonLiveMatches ==
    {i \in 1..Len(computers) : ~IsLive(computers[i]) /\ SourceHit(computers[i], path)}
ForeignHits == {i \in 1..Len(computers) : ForeignHit(computers[i], path)}
Earliest(S) == CHOOSE i \in S : \A j \in S : i <= j

\* C26: when the patterns of more than one registered profile other than the
\* live one match a path, the source profile of the translation is the
\* earliest registered of them, and it is also the profile at which the
\* foreign-path test succeeds.
C26_EarliestNonLiveIsSource ==
    (op = "translate" /\ Cardinality(NonLiveMatches) > 1)
        => /\ source = computers[Earliest(NonLiveMatches)]
           /\ foreign
           /\ Earliest(ForeignHits) = Earliest(NonLiveMatches)

----------------------------------------------------------------------------
(* Where a content-mode pass writes: notes in which the identifier of an    *)
(* embed also stands outside an embed, or is embedded twice                 *)

S_Space == <<" ">>

\* Notes: the identifier as plain text before its embed, the identifier
\* embedded twice, the identifier as plain text after its embed, two
\* different embeds, and a Windows identifier as plain text before its embed.
FrameNotes ==
    {U_bob \o S_Space \o Embed(U_bob),
     Embed(U_bob) \o S_Space \o Embed(U_bob),
     Embed(U_bob) \o S_Space \o U_bob,
     Embed(U_aliceWin) \o S_Space \o Embed(U_bob),
     U_aliceWin \o S_Space \o Embed(U_aliceWin)}

InitFrame ==
    /\ computers \in Registries(Users, {<<>>})
    /\ enableCrossPlatform = TRUE
    /\ platform \in Platforms
    /\ vaultPath \in {VaultOf(platform, u) : u \in Users}
    /\ path = <<>>
    /\ foreign = FALSE
    /\ source = NoComputer
    /\ out = <<>>
    /\ op = "init"
    /\ trail = <<>>
    /\ docText \in FrameNotes
    /\ img = [src |-> <<>>, converted |-> FALSE, original |-> <<>>]
    /\ content = <<>>
    /\ scanPc = "idle"
    /\ writes = 0
    /\ convertedCount = -1
    /\ scanPasses = 0
    /\ identifier = <<>>
    /\ encodings = 0
    /\ OpenRest
    /\ RefRest
    /\ RegRest

NextFrame ==
    \/ StartConvertCommand
    \/ StartAutoConvert
    \/ FinishContentScan

SpecFrame == InitFrame /\ [][NextFrame]_vars

\* The identifier a foreign embed is to carry after the pass, and the
\* identifier itself for an embed that is not foreign.
TargetOf(url) ==
    LET filePath == extractPath(url)
    IN  IF isPathFromDifferentPlatform(filePath)
        THEN pathToFileUrl(convertPathForCurrentPlatform(filePath))
        ELSE url

\* The text s from position from on, with the identifier of every embed
\* replaced in place by its target and every other character kept.
RECURSIVE EmbedsRewrittenFrom(_, _)
EmbedsRewrittenFrom(s, from) ==
    IF from > Len(s) THEN <<>>
    ELSE LET m == EmbedAt(s, from)
         IN  IF m.found
             THEN SubSeq(s, from, m.from - 1) \o TargetOf(SubSeq(s, m.from, m.to))
                      \o <<")">> \o EmbedsRewrittenFrom(s, m.to + 2)
             ELSE <<s[from]>> \o EmbedsRewrittenFrom(s, from + 1)

\* C27: a content-mode pass changes only text inside matched embeds: the text
\* it leaves is the text it read with the identifier of each foreign embed
\* occurrence replaced in place, once, by its translation, and with every
\* character outside an embed (an identical identifier string included) kept.
C27_OnlyEmbedsRewritten ==
    [][(scanPc \in {"command", "auto"} /\ scanPc' = "idle")
           => docText' = EmbedsRewrittenFrom(content, 1)]_vars

----------------------------------------------------------------------------
(* Agreement of the two classification routines *)

\* A note whose only embed is of path p, as a file:/// identifier.
EmbedOfPath(p) ==
    Embed(IF StartsWith(p, <<"/">>) THEN S_File2 \o p ELSE S_File3 \o p)

\* C28: the two classification routines agree: whenever
\* isPathFromDifferentPlatform returns true for a path, findMatchingComputer
\* returns a profile and that profile is not the live one, so the translation
\* has a foreign source; whenever it returns false, a content-mode pass over
\* an embed of the path translates nothing.
C28_ClassificationsAgree ==
    op = "translate" =>
        /\ foreign => (source # NoComputer /\ ~IsLive(source))
        /\ ~foreign => contentScan(EmbedOfPath(path))
                           = [newContent |-> EmbedOfPath(path), convertedCount |-> 0]

----------------------------------------------------------------------------
(* How long the auto-conversion guard holds *)

\* C29: the auto-conversion guard holds for at most one open and only for the
\* engine's own writes: every file-open event leaves lastModifiedFile
\* cleared, so with conversion and auto-convert enabled a second open of D
\* right after an open of D sets an auto-conversion timer, and so does the
\* open of D that follows a modification of D the engine did not make.
C29_GuardOnlyForOwnWrite ==
    [][\A f \in Files \cup {NoFile} :
           OpenStep(f) =>
               /\ lastModifiedFile' = NoFile
               /\ (f # NoFile /\ enableCrossPlatform /\ autoConvertCrossPlatformPaths)
                      => /\ lastEvent = [kind |-> "open", file |-> f]
                             => pending'[f] = pending[f] + 1
                         /\ lastEvent = [kind |-> "externalModify", file |-> f]
                             => pending'[f] = pending[f] + 1]_vars

----------------------------------------------------------------------------
(* The click and the timer of one confirmation *)

\* C30: the outcome of the confirmation is decided exactly once, by
\* whichever of the click and the 10 s timer comes first: it is decided only
\* while the flow waits for it, the timer firing then declines and the click
\* then confirms, and once decided it never changes; after the timer has
\* declined no step (a later click included) starts a rewrite or writes a
\* note, and a timer firing after the click leaves the rewrite where it is,
\* neither ended nor started again.
C30_DecidedOnceByTheFirst ==
    [][/\ confirmResult # "none" => confirmResult' = confirmResult
       /\ confirmResult' # confirmResult
              => /\ refPc = "confirming"
                 /\ (timerSet /\ ~timerSet') => confirmResult' = "false"
                 /\ noticeState' = "clicked" => confirmResult' = "true"
       /\ confirmResult = "false"
              => /\ refPc' = "done"
                 /\ notes' = notes
                 /\ noteWrites' = noteWrites
                 /\ filteredRefs' = filteredRefs
       /\ (confirmResult = "true" /\ timerSet /\ ~timerSet')
              => /\ refPc' = refPc
                 /\ notes' = notes
                 /\ noteWrites' = noteWrites
                 /\ filteredRefs' = filteredRefs]_vars

\* The timer declined while the notice was still shown, the user then
\* clicked it, and no note has been written.
C30_Witness ==
    /\ confirmResult = "false"
    /\ noticeState = "clicked"
    /\ ~timerSet
    /\ refPc = "done"
    /\ filteredRefs # <<>>
    /\ \A f \in Files : noteWrites[f] = 0

====
